---- MODULE Spec2Model ----
(***************************************************************************)
(* The HTTP/1.1 protocol engines of articles/0004_std_lib_http_client:     *)
(* the C engine (src/c/http1_protocol.c) and the C++ engine                *)
(* (include/httpcpp/http1_protocol.hpp), each driven by a scripted peer.   *)
(*                                                                         *)
(* Bytes are one-character strings.  A buffer is a block of the heap; the  *)
(* heap maps a block to its memory image, the bytes whose value is known,  *)
(* from offset 0.  Offsets are 0-based as in the source; Sequences are     *)
(* 1-based, so byte k of an image m is m[k + 1].                           *)
(***************************************************************************)
EXTENDS Integers, Sequences, FiniteSets, TLC

\* ------------------------------------------------------------------ bytes

CR == "\r"
LF == "\n"
SP == " "
TAB == "\t"
NUL == "NUL"
COLON == ":"

CRLF == <<CR, LF>>
HEADER_SEPARATOR_ == <<CR, LF, CR, LF>>

Min(a, b) == IF a <= b THEN a ELSE b
Max(a, b) == IF a >= b THEN a ELSE b

SetMin(S) == CHOOSE x \in S : \A y \in S : x <= y

\* The bytes of image m at offsets [a, b).
Slice(m, a, b) == SubSeq(m, a + 1, b)

\* Image m with the bytes of chunk stored from offset off (off <= Len(m)).
Store(m, off, chunk) ==
    SubSeq(m, 1, off) \o chunk \o SubSeq(m, off + Len(chunk) + 1, Len(m))

\* Image m with NUL stored at every offset of the set offs.
StoreNuls(m, offs) == [i \in 1..Len(m) |-> IF (i - 1) \in offs THEN NUL ELSE m[i]]

\* The delimiters of strtok_r(.., "\r\n", ..).
IsDelim(b) == b = CR \/ b = LF

\* toupper over the ASCII letters; every other byte is itself.
UpperOf(b) ==
    CASE b = "a" -> "A" [] b = "b" -> "B" [] b = "c" -> "C" [] b = "d" -> "D"
      [] b = "e" -> "E" [] b = "f" -> "F" [] b = "g" -> "G" [] b = "h" -> "H"
      [] b = "i" -> "I" [] b = "j" -> "J" [] b = "k" -> "K" [] b = "l" -> "L"
      [] b = "m" -> "M" [] b = "n" -> "N" [] b = "o" -> "O" [] b = "p" -> "P"
      [] b = "q" -> "Q" [] b = "r" -> "R" [] b = "s" -> "S" [] b = "t" -> "T"
      [] b = "u" -> "U" [] b = "v" -> "V" [] b = "w" -> "W" [] b = "x" -> "X"
      [] b = "y" -> "Y" [] b = "z" -> "Z" [] OTHER -> b

EqNoCase(s, t) == Len(s) = Len(t) /\ \A i \in 1..Len(s) : UpperOf(s[i]) = UpperOf(t[i])

Digits == {"0", "1", "2", "3", "4", "5", "6", "7", "8", "9"}

DigitVal(b) ==
    CASE b = "0" -> 0 [] b = "1" -> 1 [] b = "2" -> 2 [] b = "3" -> 3 [] b = "4" -> 4
      [] b = "5" -> 5 [] b = "6" -> 6 [] b = "7" -> 7 [] b = "8" -> 8 [] b = "9" -> 9

\* The value of the decimal digits s[1..n].
RECURSIVE DecimalValue(_, _)
DecimalValue(s, n) == IF n = 0 THEN 0 ELSE 10 * DecimalValue(s, n - 1) + DigitVal(s[n])

\* The length of the longest prefix of s whose bytes are all in the set S.
PrefixIn(s, S) ==
    IF \A i \in 1..Len(s) : s[i] \in S THEN Len(s)
    ELSE SetMin({i \in 1..Len(s) : s[i] \notin S}) - 1

\* ----------------------------------------------------- C library functions
\* A C string is the bytes from an offset of an image up to the first NUL.

NotFound == 0 - 1

\* The offset of the NUL that ends the C string at off, or Len(m) when the
\* known image holds no NUL from there on.
CStrEnd(m, off) ==
    IF \E j \in off..(Len(m) - 1) : m[j + 1] = NUL
    THEN SetMin({j \in off..(Len(m) - 1) : m[j + 1] = NUL})
    ELSE Len(m)

CStr(m, off) == Slice(m, off, CStrEnd(m, off))

\* strstr(data, "\r\n\r\n"): the first occurrence inside the C string at 0.
strstr(m) ==
    LET end == CStrEnd(m, 0)
        hits == {i \in 0..(end - 4) : Slice(m, i, i + 4) = HEADER_SEPARATOR_}
    IN  IF hits = {} THEN NotFound ELSE SetMin(hits)

\* strchr(s + from, c) within the bytes [from, to): the offset, or NotFound.
strchr(m, from, to, c) ==
    LET hits == {j \in from..(to - 1) : m[j + 1] = c}
    IN  IF hits = {} THEN NotFound ELSE SetMin(hits)

strcasecmp(s, t) == IF EqNoCase(s, t) THEN 0 ELSE 1

\* The integer conversion of atoi and of sscanf's %d: optional white space,
\* an optional sign, then at least one digit.
ScanInt(s) ==
    LET ws     == PrefixIn(s, {SP, TAB, CR, LF})
        r1     == SubSeq(s, ws + 1, Len(s))
        signed == Len(r1) > 0 /\ r1[1] \in {"-", "+"}
        r2     == IF signed THEN Tail(r1) ELSE r1
        nd     == PrefixIn(r2, Digits)
        v      == DecimalValue(r2, nd)
    IN  [ok |-> nd > 0, value |-> IF signed /\ r1[1] = "-" THEN 0 - v ELSE v]

atoi(s) == IF ScanInt(s).ok THEN ScanInt(s).value ELSE 0

HTTP_1_1 == <<"H", "T", "T", "P", "/", "1", ".", "1">>

\* sscanf(line, "HTTP/1.1 %d", &status_code): the status code stored, or
\* `old` when the line does not match and nothing is stored.
sscanf(line, old) ==
    IF Len(line) >= Len(HTTP_1_1) /\ SubSeq(line, 1, Len(HTTP_1_1)) = HTTP_1_1
    THEN LET r == ScanInt(SubSeq(line, Len(HTTP_1_1) + 1, Len(line)))
         IN  IF r.ok THEN r.value ELSE old
    ELSE old

\* strtok_r(headers_start, "\r\n", ..) over the C string [0, he): the tokens
\* are the maximal runs of bytes that are neither CR nor LF, in order.
TokStarts(m, he) ==
    {i \in 0..(he - 1) : ~IsDelim(m[i + 1]) /\ (i = 0 \/ IsDelim(m[i]))}

TokEnd(m, he, s) == SetMin({j \in s..he : j = he \/ IsDelim(m[j + 1])})

Tokens(m, he) ==
    LET TS == TokStarts(m, he)
    IN  [k \in 1..Cardinality(TS) |->
            LET s == CHOOSE x \in TS : Cardinality({t \in TS : t < x}) = k - 1
            IN  [s |-> s, e |-> TokEnd(m, he, s)]]

\* ------------------------------------------------------- C engine: parsing

\* HttpResponse.headers holds at most this many entries.
MaxHeaders == 32

\* The value (char*)1 that `strchr(..) + 1` yields when strchr returns NULL.
InvalidOffset == 0 - 1

\* http_response_parse_headers(self, res, buffer.data), the header block being
\* the C string [0, he) of image m (m holds the NUL stored at he).  res gives
\* the caller's status_code, status_message and headers, which stay as they
\* are where the function stores nothing.  The result names the image with the
\* NULs strtok_r and the colon split store, and views as offsets into it.
\* crash: strchr is handed the address 1 when the first line holds no space.
http_response_parse_headers(m, he, res) ==
    LET colon(toks, k)   == strchr(m, toks[k].s, toks[k].e, COLON)
        \* the number of headers stored once tokens 2..k are processed
        stored(toks, k)  == Cardinality({j \in 2..k : colon(toks, j) # NotFound})
        \* token k is fetched unless the loop has broken at an earlier one
        fetched(toks, k) == \A j \in 2..(k - 1) : stored(toks, j - 1) < MaxHeaders
        \* K: the tokens stored as headers, m2: the image with the NULs stored
        Headers(toks, K, m2) ==
            [img |-> m2,
             headers |->
                [i \in 1..Cardinality(K) |->
                    LET k == CHOOSE x \in K : Cardinality({y \in K : y < x}) = i - 1
                    IN  [key |-> toks[k].s,
                         value |-> SetMin({v \in (colon(toks, k) + 1)..toks[k].e :
                                              m2[v + 1] # SP})]]]
        \* F: the tokens fetched
        Split(toks, F, K) ==
            Headers(toks, K,
                    StoreNuls(m, ({toks[k].e : k \in F} \cup {colon(toks, k) : k \in K})
                                    \cap (0..(Len(m) - 1))))
        Result(toks, sp1, sp2, h) ==
            [crash |-> sp1 = NotFound,
             img |-> h.img,
             status_code |-> sscanf(Slice(m, toks[1].s, toks[1].e), res.status_code),
             status_message |-> IF sp2 = NotFound THEN InvalidOffset ELSE sp2 + 1,
             headers |-> h.headers]
        StatusLine(toks, sp1) ==
            Result(toks, sp1,
                   IF sp1 = NotFound THEN NotFound ELSE strchr(m, sp1 + 1, toks[1].e, SP),
                   Split(toks,
                         {j \in 1..Len(toks) : j = 1 \/ fetched(toks, j)},
                         {k \in 2..Len(toks) :
                             /\ fetched(toks, k)
                             /\ stored(toks, k - 1) < MaxHeaders
                             /\ colon(toks, k) # NotFound}))
        Lines(toks) ==
            IF Len(toks) = 0
            THEN [crash |-> FALSE, img |-> m, status_code |-> res.status_code,
                  status_message |-> res.status_message, headers |-> res.headers]
            ELSE StatusLine(toks, strchr(m, toks[1].s, toks[1].e, SP))
    IN  Lines(Tokens(m, he))

CONTENT_LENGTH == <<"C", "o", "n", "t", "e", "n", "t", "-", "L", "e", "n", "g", "t", "h">>

\* The loop of parse_response_unsafe over response->headers: the index of the
\* first header whose key is Content-Length in any letter case, or 0.
ContentLengthHeader(m, hdr) ==
    LET hits == {i \in 1..Len(hdr) : strcasecmp(CStr(m, hdr[i].key), CONTENT_LENGTH) = 0}
    IN  IF hits = {} THEN 0 ELSE SetMin(hits)

\* ------------------------------------------------------------ errors, heap

NONE == "NONE"
HTTP_PARSE_FAILURE == "HttpParseFailure"
SOCKET_READ_FAILURE == "SocketReadFailure"
SOCKET_WRITE_FAILURE == "SocketWriteFailure"
CONNECTION_CLOSED == "ConnectionClosed"
\* The errors a failing write or read of a transport comes back with.
TransportFailures == {SOCKET_WRITE_FAILURE, SOCKET_READ_FAILURE}
\* perform_request has not returned yet / the process died in it.
Continue == "continue"
Crash == "crash"
\* What a read through a pointer that names no allocated, written bytes gives.
Undefined == <<"undefined">>

\* A pointer is a block and an offset into it; block 0 is no block.
NullBlock == 0
NULLP == [blk |-> NullBlock, off |-> 0]
INVALIDP == [blk |-> NullBlock, off |-> 1]
Ptr(b, o) == [blk |-> b, off |-> o]

\* The blocks a C response's pointers name.
ResponseBlocks(res) ==
    {res.status_message.blk, res.body.blk, res.owned}
      \cup {res.headers[i].key.blk : i \in DOMAIN res.headers}
      \cup {res.headers[i].value.blk : i \in DOMAIN res.headers}

\* An address the allocator may hand out: the lowest block that is neither
\* allocated nor named by a pointer that is still held somewhere.
FreshBlock(used) == SetMin({b \in 1..(Cardinality(used) + 1) : b \notin used})

\* realloc(buffer.data, size) succeeding: the buffer's block and the heap after
\* it.  realloc of a null pointer allocates; otherwise the block "stays" and is
\* extended in place or it "moves": the old bytes are copied to a new block and
\* the old one is freed.
\* The bytes past the old size are unknown in a new block.
realloc(st, size, moved, avoid) ==
    LET old   == st.buffer.data
        fresh == FreshBlock(st.live \cup avoid \cup ResponseBlocks(st.response))
        new   == IF old = NullBlock \/ moved = "moves" THEN fresh ELSE old
        img   == IF old = NullBlock THEN << >>
                 ELSE IF moved = "moves"
                 THEN Slice(st.heap[old], 0,
                            Min(Len(st.heap[old]), Min(st.buffer.capacity, size)))
                 ELSE st.heap[old]
    IN  [data |-> new,
         live |-> (st.live \ {old}) \cup {new},
         heap |-> [b \in ((DOMAIN st.heap) \ {old}) \cup {new} |->
                     IF b = new THEN img ELSE st.heap[b]]]

\* The outcome of a realloc that returns null: the block stays as it is.
AllocFails == "fails"

\* free(block).
free(st, b) ==
    [st EXCEPT !.live = @ \ {b},
               !.heap = [x \in (DOMAIN st.heap) \ {b} |-> st.heap[x]]]

\* The capacity an empty buffer grows to.
InitialCapacity == 2048

\* The doubling of growable_buffer_append: from `capacity`, doubled until
\* `needed` bytes fit.
RECURSIVE DoubleUntil(_, _)
DoubleUntil(capacity, needed) ==
    IF capacity >= needed THEN capacity ELSE DoubleUntil(capacity * 2, needed)

\* growable_buffer_append(self, &self->buffer, data, len); st.ret is the err of
\* the caller, who returns on an error before it appends again.
growable_buffer_append(st, bytes, moved, avoid) ==
    LET buf  == st.buffer
        need == buf.len + Len(bytes)
        Appended(r, capacity) ==
            [st EXCEPT
                !.live = r.live,
                !.heap = [r.heap EXCEPT ![r.data] = Store(r.heap[r.data], buf.len, bytes)],
                !.buffer = [data |-> r.data, len |-> need, capacity |-> capacity]]
        Grown(new_capacity) == Appended(realloc(st, new_capacity, moved, avoid), new_capacity)
    IN  IF st.ret # NONE THEN st
        ELSE IF need > buf.capacity /\ moved = AllocFails
        THEN [st EXCEPT !.ret = HTTP_PARSE_FAILURE]
        ELSE IF need > buf.capacity
        THEN Grown(DoubleUntil(IF buf.capacity = 0 THEN InitialCapacity ELSE buf.capacity * 2,
                               need))
        ELSE Appended([data |-> buf.data, live |-> st.live, heap |-> st.heap], buf.capacity)

\* -------------------------------------------- C engine: request serialization

GET == "GET"
POST == "POST"
HTTP_VERSION_LINE_END == <<SP, "H", "T", "T", "P", "/", "1", ".", "1", CR, LF>>

MethodBytes(method) == IF method = GET THEN <<"G", "E", "T">> ELSE <<"P", "O", "S", "T">>

\* snprintf(request_line, .., "%s %s HTTP/1.1\r\n", method_str, request->path)
RequestLine(request) == MethodBytes(request.method) \o <<SP>> \o request.path \o HTTP_VERSION_LINE_END

\* snprintf(header_line, .., "%s: %s\r\n", key, value)
HeaderLine(h) == h.key \o <<COLON, SP>> \o h.value \o CRLF

\* get_content_length_from_request: atoi of the value of the request's first
\* Content-Length header, or 0.
get_content_length_from_request(request) ==
    LET hits == {i \in 1..Len(request.headers) :
                    strcasecmp(request.headers[i].key, CONTENT_LENGTH) = 0}
    IN  IF hits = {} THEN 0 ELSE atoi(request.headers[SetMin(hits)].value)

\* The appends of build_request_headers_in_buffer after `self->buffer.len = 0`:
\* the request line, header i for i in 1..n, then, once past the last, "\r\n".
RECURSIVE AppendHeaders(_, _, _, _, _)
AppendHeaders(st, request, i, moved, avoid) ==
    IF i > Len(request.headers)
    THEN growable_buffer_append(st, CRLF, moved, avoid)
    ELSE AppendHeaders(growable_buffer_append(st, HeaderLine(request.headers[i]), moved, avoid),
                       request, i + 1, moved, avoid)

\* A serialization that appends to what the buffer holds.
build_request_headers_appended(st, request, moved, avoid) ==
    AppendHeaders(growable_buffer_append(st, RequestLine(request), moved, avoid),
                  request, 1, moved, avoid)

build_request_headers_in_buffer(st, request, moved, avoid) ==
    AppendHeaders(
        growable_buffer_append([st EXCEPT !.buffer.len = 0], RequestLine(request), moved, avoid),
        request, 1, moved, avoid)

\* build_request_in_buffer: the header block, then for a POST with a body the
\* first body_len bytes at request->body (the body is a C string: past its
\* bytes lie its NUL and then bytes the request does not define).
BodyBytes(request, body_len) ==
    [i \in 1..body_len |->
        IF i <= Len(request.body) THEN request.body[i]
        ELSE IF i = Len(request.body) + 1 THEN NUL ELSE "?"]

build_request_in_buffer(st, request, body_len, moved, avoid) ==
    LET h == build_request_headers_in_buffer(st, request, moved, avoid)
    IN  IF ~request.body_null /\ request.method = POST
        THEN growable_buffer_append(h, BodyBytes(request, body_len), moved, avoid)
        ELSE h

\* ------------------------------------------- C engine: parse_response_unsafe
\* The state the functions below work on is a record st:
\*   heap, live         the allocated blocks and their images
\*   buffer             self->buffer: [data, len, capacity]
\*   saved              parse_response_safe's original_buffer
\*   headers_parsed, header_len, content_length     the locals of the loop
\*   response           the caller's HttpResponse
\*   ret                Continue, or what perform_request returns
\* size_t values that wrapped below zero are kept as negative numbers.

UnknownLength == 0 - 1

\* What the memory past the known image may hold when strstr runs into it:
\* a NUL at once, or the rest of a header terminator and then a NUL.
GarbageChoices ==
    {<<NUL>>, <<LF, NUL>>, <<CR, LF, NUL>>, <<LF, CR, LF, NUL>>, <<CR, LF, CR, LF, NUL>>}

\* A growth before the read by half the capacity.
GrowBeforeReadByHalf(st, moved, avoid) ==
    IF st.buffer.len = st.buffer.capacity /\ moved = AllocFails
    THEN [st EXCEPT !.ret = HTTP_PARSE_FAILURE]
    ELSE IF st.buffer.len = st.buffer.capacity
    THEN LET new_capacity == IF st.buffer.capacity = 0 THEN InitialCapacity
                             ELSE st.buffer.capacity + st.buffer.capacity \div 2
             r == realloc(st, new_capacity, moved, avoid)
         IN  [st EXCEPT !.live = r.live, !.heap = r.heap,
                        !.buffer.data = r.data, !.buffer.capacity = new_capacity]
    ELSE st

\* Lines 112-120: a full buffer is doubled before the read.
GrowBeforeRead(st, moved, avoid) ==
    IF st.buffer.len = st.buffer.capacity /\ moved = AllocFails
    THEN [st EXCEPT !.ret = HTTP_PARSE_FAILURE]
    ELSE IF st.buffer.len = st.buffer.capacity
    THEN LET new_capacity == IF st.buffer.capacity = 0 THEN InitialCapacity
                             ELSE st.buffer.capacity * 2
             r == realloc(st, new_capacity, moved, avoid)
         IN  [st EXCEPT !.live = r.live, !.heap = r.heap,
                        !.buffer.data = r.data, !.buffer.capacity = new_capacity]
    ELSE st

\* Lines 122-127: the bytes the transport read stores at data + len.
StoreRead(st, bytes) ==
    [st EXCEPT !.heap[st.buffer.data] = Store(@, st.buffer.len, bytes),
               !.buffer.len = @ + Len(bytes)]

\* Lines 129-145: while the headers are not parsed, strstr searches the C
\* string at buffer.data, which runs through whatever follows the bytes read
\* so far; when it ends in memory nobody wrote, that memory holds `garbage`.
FindHeaders(st, garbage) ==
    LET d == st.buffer.data
        Known(header_end, ph, parsed, cl, len) ==
            [st EXCEPT
                !.heap[d] = ph.img,
                !.headers_parsed = TRUE,
                !.header_len = header_end + 4,
                !.content_length = len,
                !.response.status_code = ph.status_code,
                !.response.status_message =
                    IF ~parsed THEN @
                    ELSE IF ph.status_message = InvalidOffset THEN INVALIDP
                    ELSE Ptr(d, ph.status_message),
                !.response.headers =
                    IF parsed
                    THEN [i \in 1..Len(ph.headers) |->
                            [key |-> Ptr(d, ph.headers[i].key),
                             value |-> Ptr(d, ph.headers[i].value)]]
                    ELSE @,
                !.response.content_length = IF cl = 0 THEN @ ELSE len,
                !.ret = IF ph.crash THEN Crash ELSE @]
        Framed(header_end, ph, parsed, cl) ==
            Known(header_end, ph, parsed, cl,
                  IF cl = 0 THEN UnknownLength ELSE atoi(CStr(ph.img, ph.headers[cl].value)))
        Parsed(header_end, ph, parsed) ==
            Framed(header_end, ph, parsed,
                   IF parsed THEN ContentLengthHeader(ph.img, ph.headers) ELSE 0)
        Ended(m2, header_end) ==
            Parsed(header_end,
                   http_response_parse_headers(m2, header_end,
                      [status_code |-> st.response.status_code,
                       status_message |-> st.response.status_message,
                       headers |-> st.response.headers]),
                   Len(Tokens(m2, header_end)) > 0)
        m0 == st.heap[d]
        m1 == IF strstr(m0) = NotFound /\ CStrEnd(m0, 0) = Len(m0) THEN m0 \o garbage ELSE m0
    IN  IF st.headers_parsed THEN st
        ELSE IF strstr(m1) = NotFound THEN [st EXCEPT !.heap[d] = m1]
        ELSE Ended(Store(m1, strstr(m1), <<NUL>>), strstr(m1))

\* Line 161-168: the views follow the buffer to its new block.
Rebase(p, old, new) == IF p.blk = old THEN Ptr(new, p.off) ELSE INVALIDP

RebaseResponse(res, old, new) ==
    [res EXCEPT
        !.status_message = Rebase(@, old, new),
        !.headers = [i \in DOMAIN @ |->
                        [key |-> Rebase(@[i].key, old, new),
                         value |-> Rebase(@[i].value, old, new)]]]

\* Lines 189-193: what parse_response_unsafe returns once the loop is left.
AfterLoop(st) ==
    IF ~st.headers_parsed /\ st.buffer.len > 0 THEN HTTP_PARSE_FAILURE ELSE NONE

\* Lines 148-175: the headers are parsed and a content length is known.
\* total_size = header_len + content_length is a size_t: below zero it stands
\* for a size near 2^64, which no allocation satisfies and no length reaches.
FrameByLength(st, closed, moved, avoid) ==
    LET total_size == st.header_len + st.content_length
        grow == IF total_size >= 0 THEN st.buffer.capacity < total_size + 1
                ELSE total_size + 1 < 0
        Grown(r) ==
            [st EXCEPT
                !.live = r.live, !.heap = r.heap,
                !.buffer.data = r.data, !.buffer.capacity = total_size + 1,
                !.response = IF r.data # st.buffer.data
                             THEN RebaseResponse(@, st.buffer.data, r.data)
                             ELSE @]
        Fitted(s1) ==
            IF total_size >= 0 /\ s1.buffer.len >= total_size
            THEN [s1 EXCEPT
                    !.response.body = Ptr(s1.buffer.data, s1.header_len),
                    !.response.body_len = s1.content_length,
                    !.heap[s1.buffer.data] = Store(@, total_size, <<NUL>>),
                    !.ret = AfterLoop(s1)]
            ELSE IF closed THEN [s1 EXCEPT !.ret = AfterLoop(s1)]
            ELSE s1
    IN  IF grow /\ (total_size < 0 \/ moved = AllocFails)
        THEN [st EXCEPT !.ret = HTTP_PARSE_FAILURE]
        ELSE IF grow THEN Fitted(Grown(realloc(st, total_size + 1, moved, avoid)))
        ELSE Fitted(st)

\* Lines 176-186: no content length is known.
FrameByClose(st, closed) ==
    LET d == st.buffer.data
    IN  IF st.headers_parsed /\ closed
        THEN [st EXCEPT
                !.response.body = Ptr(d, st.header_len),
                !.response.body_len = st.buffer.len - st.header_len,
                !.heap[d] = Store(@, st.buffer.len, <<NUL>>),
                !.ret = AfterLoop(st)]
        ELSE IF closed THEN [st EXCEPT !.ret = AfterLoop(st)]
        ELSE st

\* A result of transport->read: data, the peer's close, or a failure with the
\* transport's error.
DataRead(bytes) == [kind |-> "data", bytes |-> bytes, err |-> NONE]
ClosedRead == [kind |-> "closed", bytes |-> << >>, err |-> CONNECTION_CLOSED]
FailedRead(e) == [kind |-> "error", bytes |-> << >>, err |-> e]

\* A pass that reports every failed read as a parse failure.
parse_response_hiding_read_error(st, ev, ch, avoid) ==
    LET Framing(s2) ==
            IF s2.ret = Crash THEN s2
            ELSE IF s2.headers_parsed /\ s2.content_length # UnknownLength
            THEN FrameByLength(s2, ev.kind = "closed", ch.moved_fit, avoid)
            ELSE FrameByClose(s2, ev.kind = "closed")
        Grown(s1) ==
            IF s1.ret # Continue THEN s1
            ELSE IF ev.kind = "error" THEN [s1 EXCEPT !.ret = HTTP_PARSE_FAILURE]
            ELSE Framing(FindHeaders(StoreRead(s1, ev.bytes), ch.garbage))
    IN  Grown(GrowBeforeRead(st, ch.moved_grow, avoid))

\* One pass of the loop of parse_response_unsafe (lines 111-187) on the read
\* result ev.  ch names what the run does not decide: whether each realloc
\* fails, moves the block or extends it, and what unwritten memory holds.
parse_response_unsafe(st, ev, ch, avoid) ==
    LET Framing(s2) ==
            IF s2.ret = Crash THEN s2
            ELSE IF s2.headers_parsed /\ s2.content_length # UnknownLength
            THEN FrameByLength(s2, ev.kind = "closed", ch.moved_fit, avoid)
            ELSE FrameByClose(s2, ev.kind = "closed")
        Grown(s1) ==
            IF s1.ret # Continue THEN s1
            ELSE IF ev.kind = "error" THEN [s1 EXCEPT !.ret = ev.err]
            ELSE Framing(FindHeaders(StoreRead(s1, ev.bytes), ch.garbage))
    IN  Grown(GrowBeforeRead(st, ch.moved_grow, avoid))

\* A start of parse_response_unsafe that keeps the length of the buffer.
BeginParseKeepingLength(st) ==
    [st EXCEPT !.content_length = UnknownLength, !.header_len = 0,
               !.headers_parsed = FALSE, !.response.owned = NullBlock]

\* Lines 101-109: the start of parse_response_unsafe.
BeginParse(st) ==
    [st EXCEPT !.buffer.len = 0, !.content_length = UnknownLength, !.header_len = 0,
               !.headers_parsed = FALSE, !.response.owned = NullBlock]

HTTP_RESPONSE_UNSAFE_ZERO_COPY == "zero_copy"
HTTP_RESPONSE_SAFE_OWNING == "safe_owning"

EmptyBuffer == [data |-> NullBlock, len |-> 0, capacity |-> 0]

\* Lines 199-201: parse_response_safe parses into a buffer of its own.
BeginParseSafe(st) == BeginParse([st EXCEPT !.saved = st.buffer, !.buffer = EmptyBuffer])

\* parse_response_safe with line 208 left out: the parse buffer is not freed.
EndParseSafeLeaks(st) ==
    IF st.ret # NONE
    THEN [st EXCEPT !.buffer = st.saved, !.saved = EmptyBuffer]
    ELSE [st EXCEPT !.response.owned = st.buffer.data,
                    !.buffer = st.saved, !.saved = EmptyBuffer]

\* Lines 205-217: parse_response_safe once parse_response_unsafe has returned.
EndParseSafe(st) ==
    IF st.ret # NONE
    THEN LET s1 == IF st.buffer.capacity # 0 THEN free(st, st.buffer.data) ELSE st
         IN  [s1 EXCEPT !.buffer = st.saved, !.saved = EmptyBuffer]
    ELSE [st EXCEPT !.response.owned = st.buffer.data,
                    !.buffer = st.saved, !.saved = EmptyBuffer]

\* self->parse_response(self, response), one read at a time.
parse_response(policy, st, ev, ch, avoid) ==
    LET Parsed(s1) ==
            IF policy = HTTP_RESPONSE_SAFE_OWNING /\ s1.ret \notin {Continue, Crash}
            THEN EndParseSafe(s1) ELSE s1
    IN  Parsed(parse_response_unsafe(st, ev, ch, avoid))

\* ------------------------------------------------------------- C++ engine
\* buffer is the vector buffer_: data its storage block, len its size(); the
\* image of the block holds the elements [0, size).  header_len is
\* header_size_ and content_length is content_length_, UnknownLength standing
\* for std::nullopt.  A string_view or span is a block, an offset and a length.

View(b, o, n) == [blk |-> b, off |-> o, len |-> n]

\* std::max(available_capacity, static_cast<size_t>(1024))
MinRead == 1024

CONTENT_LENGTH_COLON == CONTENT_LENGTH \o <<COLON>>

\* v.find("\r\n", from): the first offset at or after `from`, or NotFound.
FindCRLF(v, from) ==
    LET hits == {i \in from..(Len(v) - 2) : v[i + 1] = CR /\ v[i + 2] = LF}
    IN  IF hits = {} THEN NotFound ELSE SetMin(hits)

\* std::search(buffer_.begin(), buffer_.end(), HEADER_SEPARATOR_...)
search(v) ==
    LET hits == {i \in 0..(Len(v) - 4) : v[i + 1] = CR /\ Slice(v, i, i + 4) = HEADER_SEPARATOR_}
    IN  IF hits = {} THEN NotFound ELSE SetMin(hits)

\* The number of leading bytes remove_prefix(min(find_first_not_of(" \t"),
\* size())) drops.
LeadingBlanks(s) == PrefixIn(s, {SP, TAB})

\* std::from_chars into a size_t (no sign) or an int (an optional '-'); the
\* inputs of this model keep to values of at most nine digits.
from_chars(s, signed) ==
    LET neg == signed /\ Len(s) > 0 /\ s[1] = "-"
        r   == IF neg THEN Tail(s) ELSE s
        nd  == PrefixIn(r, Digits)
        v   == DecimalValue(r, nd)
    IN  [ok |-> nd > 0, value |-> IF neg THEN 0 - v ELSE v]

strncasecmp(s, t, n) == IF EqNoCase(SubSeq(s, 1, n), SubSeq(t, 1, n)) THEN 0 ELSE 1

\* Lines 163-178: the scan of the header lines for Content-Length, from
\* line_start; hv is headers_view.
RECURSIVE ScanContentLength(_, _)
ScanContentLength(hv, line_start) ==
    IF line_start >= Len(hv) THEN UnknownLength
    ELSE
    LET line_end == FindCRLF(hv, line_start)
        line     == Slice(hv, line_start, IF line_end = NotFound THEN Len(hv) ELSE line_end)
    IN  IF Len(line) = 0 THEN UnknownLength
        ELSE IF Len(line) >= 15 /\ strncasecmp(line, CONTENT_LENGTH_COLON, 15) = 0
        THEN LET value_sv == SubSeq(line, 16, Len(line))
                 r == from_chars(SubSeq(value_sv, LeadingBlanks(value_sv) + 1, Len(value_sv)),
                                 FALSE)
             IN  IF r.ok THEN r.value ELSE UnknownLength
        ELSE IF line_end = NotFound THEN UnknownLength
        ELSE ScanContentLength(hv, line_end + 2)

\* The capacity of a std::vector of `size` elements and capacity `cap` once
\* it holds n elements more (libstdc++: size + max(size, n) when it grows).
VectorCapacity(cap, size, n) == IF size + n <= cap THEN cap ELSE size + Max(size, n)

\* The vector grown to hold n elements more: new storage when the capacity
\* does not do, the elements copied and the old storage freed.
VectorGrow(st, n, avoid) ==
    LET cap == VectorCapacity(st.buffer.capacity, st.buffer.len, n)
        old == st.buffer.data
        new == FreshBlock(st.live \cup avoid \cup {NullBlock})
        img == IF old = NullBlock THEN << >> ELSE st.heap[old]
    IN  IF cap = st.buffer.capacity THEN st
        ELSE [st EXCEPT
                !.live = (@ \ {old}) \cup {new},
                !.heap = [b \in ((DOMAIN st.heap) \ {old}) \cup {new} |->
                            IF b = new THEN img ELSE st.heap[b]],
                !.buffer.data = new, !.buffer.capacity = cap]

\* buffer_.insert(buffer_.end(), ...) of the bytes given.
VectorAppend(st, bytes, avoid) ==
    IF Len(bytes) = 0 THEN st
    ELSE LET s1 == VectorGrow(st, Len(bytes), avoid)
         IN  [s1 EXCEPT !.heap[s1.buffer.data] = @ \o bytes,
                        !.buffer.len = @ + Len(bytes)]

\* buffer_.clear()
VectorClear(st) ==
    IF st.buffer.data = NullBlock THEN st
    ELSE [st EXCEPT !.heap[st.buffer.data] = << >>, !.buffer.len = 0]

RECURSIVE AppendAll(_, _, _)
AppendAll(st, pieces, avoid) ==
    IF pieces = << >> THEN st
    ELSE LET s1 == VectorAppend(st, Head(pieces), avoid)
         IN  \* The test, which is true of every vector, has TLC evaluate s1
             \* before the pieces that follow.
             IF s1.buffer.len >= 0 THEN AppendAll(s1, Tail(pieces), avoid) ELSE st

RECURSIVE HeaderPieces(_)
HeaderPieces(headers) ==
    IF headers = << >> THEN << >>
    ELSE << Head(headers).key, <<COLON, SP>>, Head(headers).value, CRLF >>
            \o HeaderPieces(Tail(headers))

\* build_request_string(req), lines 88-120.
build_request_string(st, req, avoid) ==
    AppendAll(VectorClear(st),
              << MethodBytes(req.method), <<SP>>, req.path, HTTP_VERSION_LINE_END >>
                 \o HeaderPieces(req.headers) \o << CRLF, req.body >>,
              avoid)

\* Lines 220-233: the header views of the block [p, hb) of image v.
RECURSIVE HeaderViews(_, _, _, _)
HeaderViews(b, v, p, hb) ==
    IF p >= hb THEN << >>
    ELSE
    LET line_end == FindCRLF(Slice(v, 0, hb), p)
        e     == IF line_end = NotFound THEN hb ELSE line_end
        colon_pos == strchr(v, p, e, COLON)
        vs    == colon_pos + 1 + LeadingBlanks(Slice(v, colon_pos + 1, e))
        this  == IF colon_pos = NotFound THEN << >>
                 ELSE << [key |-> View(b, p, colon_pos - p), value |-> View(b, vs, e - vs)] >>
    IN  this \o (IF line_end = NotFound THEN << >> ELSE HeaderViews(b, v, line_end + 2, hb))

NoResponse ==
    [status_code |-> 0, status_message |-> << >>, headers |-> << >>, body |-> << >>,
     content_length |-> UnknownLength]

\* parse_unsafe_response(), lines 196-244.
parse_unsafe_response(st) ==
    LET b   == st.buffer.data
        v   == IF b = NullBlock THEN << >> ELSE st.heap[b]
        hb  == st.header_len - 4
        fail == [st EXCEPT !.ret = HTTP_PARSE_FAILURE, !.response = NoResponse]
        status_line_end == FindCRLF(Slice(v, 0, hb), 0)
        code_start == strchr(v, 0, status_line_end, SP)
        code_end   == strchr(v, code_start + 1, status_line_end, SP)
        code == from_chars(Slice(v, code_start + 1, code_end), TRUE)
    IN  IF st.header_len = 0 THEN fail
        ELSE IF status_line_end = NotFound THEN fail
        ELSE IF code_start = NotFound THEN fail
        ELSE IF code_end = NotFound THEN fail
        ELSE IF ~code.ok THEN fail
        ELSE [st EXCEPT
                !.ret = NONE,
                !.response =
                    [status_code |-> code.value,
                     status_message |-> View(b, code_end + 1, status_line_end - (code_end + 1)),
                     headers |-> HeaderViews(b, v, status_line_end + 2, hb),
                     body |-> IF st.content_length # UnknownLength
                              THEN View(b, st.header_len, st.content_length)
                              ELSE View(b, st.header_len, st.buffer.len - st.header_len),
                     content_length |-> UnknownLength]]

\* What a view shows: its bytes, or Undefined when it does not lie in the
\* elements of an allocated block.
DerefView(h, l, w) ==
    IF w.blk \in l /\ w.off >= 0 /\ w.len >= 0 /\ w.off + w.len <= Len(h[w.blk])
    THEN Slice(h[w.blk], w.off, w.off + w.len) ELSE Undefined

\* Lines 52-65: the copies perform_request_safe makes of the views.
SafeCopy(h, l, res) ==
    [status_code |-> res.status_code,
     status_message |-> DerefView(h, l, res.status_message),
     headers |-> [i \in DOMAIN res.headers |->
                    <<DerefView(h, l, res.headers[i].key),
                      DerefView(h, l, res.headers[i].value)>>],
     body |-> DerefView(h, l, res.body),
     content_length |-> UnknownLength]

\* Lines 189-193 and perform_request_unsafe/_safe once read_full_response has
\* left its loop.
AfterRead(policy, st) ==
    IF st.header_len = 0 /\ st.buffer.len # 0
    THEN [st EXCEPT !.ret = HTTP_PARSE_FAILURE, !.response = NoResponse]
    ELSE LET s1 == parse_unsafe_response(st)
         IN  IF s1.ret = NONE /\ policy = HTTP_RESPONSE_SAFE_OWNING
             THEN [s1 EXCEPT !.response = SafeCopy(s1.heap, s1.live, s1.response)]
             ELSE s1

\* Lines 150-180: the search for the header block once bytes have arrived.
FindHeaderSize(st) ==
    LET v  == st.heap[st.buffer.data]
        it == search(v)
    IN  IF st.header_len # 0 \/ it = NotFound THEN st
        ELSE LET hv == Slice(v, 0, it + 4)
             IN  [st EXCEPT !.header_len = it + 4,
                            !.content_length = ScanContentLength(hv, FindCRLF(hv, 0) + 2)]

\* A close check that lets a response one byte short pass.
ClosedShortOffByOne(st) ==
    st.content_length # UnknownLength
      /\ st.buffer.len + 1 < st.header_len + st.content_length

\* The close check of lines 139-143.
ClosedShort(st) ==
    st.content_length # UnknownLength /\ st.buffer.len < st.header_len + st.content_length

\* One pass of the loop of read_full_response (lines 127-187) on the read
\* result ev, and what follows the loop when the pass leaves it.
read_full_response(policy, st, ev, avoid) ==
    LET old_size    == st.buffer.len
        read_amount == Max(st.buffer.capacity - old_size, MinRead)
        s1 == VectorGrow(st, read_amount, avoid)
    IN  IF ev.kind = "error"
        THEN [s1 EXCEPT !.ret = ev.err, !.response = NoResponse]
        ELSE IF ev.kind = "closed"
        THEN IF ClosedShort(s1)
             THEN [s1 EXCEPT !.ret = HTTP_PARSE_FAILURE, !.response = NoResponse]
             ELSE AfterRead(policy, s1)
        ELSE LET s2 == FindHeaderSize(
                          [s1 EXCEPT !.heap[s1.buffer.data] = @ \o ev.bytes,
                                     !.buffer.len = @ + Len(ev.bytes)])
             IN  IF s2.content_length # UnknownLength
                    /\ s2.buffer.len >= s2.header_len + s2.content_length
                 THEN AfterRead(policy, s2)
                 ELSE s2

\* Lines 123-125: the start of read_full_response.
BeginRead(st) ==
    [VectorClear(st) EXCEPT !.header_len = 0, !.content_length = UnknownLength]

\* ------------------------------------------------------ requests and peers

\* The requests a caller makes.
Requests ==
    << [method |-> GET, path |-> <<"/">>, headers |-> << >>,
        body |-> << >>, body_null |-> TRUE],
       [method |-> POST, path |-> <<"/", "p">>,
        headers |-> << [key |-> CONTENT_LENGTH, value |-> <<"2">>] >>,
        body |-> <<"o", "k">>, body_null |-> FALSE] >>

\* The requests a caller hands to get and post of the client: those above,
\* one whose Content-Length key is in lower case and that repeats a header,
\* one with a near miss of that key, one with an empty body that is not a
\* null pointer, and one whose Content-Length is less than its body.
CallerRequests ==
    Requests \o
    << [method |-> GET, path |-> <<"/", "p">>,
        headers |-> << [key |-> <<"A">>, value |-> <<"b">>],
                       [key |-> <<"c", "o", "n", "t", "e", "n", "t", "-",
                                  "l", "e", "n", "g", "t", "h">>,
                        value |-> <<"2">>],
                       [key |-> <<"A">>, value |-> <<"b">>] >>,
        body |-> <<"o", "k">>, body_null |-> FALSE],
       [method |-> GET, path |-> <<"/", "p">>,
        headers |-> << [key |-> <<"C", "o", "n", "t", "e", "n", "t", "-",
                                  "L", "e", "n", "g", "t">>,
                        value |-> <<"2">>] >>,
        body |-> <<"o", "k">>, body_null |-> FALSE],
       [method |-> GET, path |-> <<"/", "p">>,
        headers |-> << [key |-> CONTENT_LENGTH, value |-> <<"0">>] >>,
        body |-> << >>, body_null |-> FALSE],
       [method |-> POST, path |-> <<"/", "p">>,
        headers |-> << [key |-> CONTENT_LENGTH, value |-> <<"1">>] >>,
        body |-> <<"o", "k">>, body_null |-> FALSE] >>

\* The body length of the responses that outgrow an initial buffer.
BigBodyLen == 2100

RECURSIVE DecimalBytes(_)
DecimalBytes(n) ==
    LET DigitByte(d) ==
            CASE d = 0 -> "0" [] d = 1 -> "1" [] d = 2 -> "2" [] d = 3 -> "3" [] d = 4 -> "4"
              [] d = 5 -> "5" [] d = 6 -> "6" [] d = 7 -> "7" [] d = 8 -> "8" [] d = 9 -> "9"
    IN  IF n < 10 THEN <<DigitByte(n)>> ELSE DecimalBytes(n \div 10) \o <<DigitByte(n % 10)>>

\* What a peer sends before it closes or falls silent: a response framed by
\* its length and followed by two bytes more, one framed by the close, one cut
\* short inside its body, one cut short inside its headers, and two that
\* outgrow the initial buffer; then one whose thirty-third header line
\* declares the length, after a line with two spaces before its value and
\* thirty-one equal lines, and one that declares the length in mixed case
\* between other lines and is followed by two bytes more; then one that
\* declares a negative length and one whose length is no number.
Streams ==
    LET STATUS_200 == <<"H", "T", "T", "P", "/", "1", ".", "1", SP, "2", "0", "0", SP, "O", "K", CR, LF>>
        CONTENT_LENGTH_4 == CONTENT_LENGTH \o <<COLON, SP, "4", CR, LF>>
        A_HEADER == <<"A", COLON, SP, "b", CR, LF>>
        BODY == <<"B", "o", "d", "y">>
        BigBody == [i \in 1..BigBodyLen |-> "a"]
        RECURSIVE Repeated(_, _)
        Repeated(line, n) == IF n = 0 THEN << >> ELSE line \o Repeated(line, n - 1)
    IN  << STATUS_200 \o CONTENT_LENGTH_4 \o CRLF \o BODY \o <<"X", "Y">>,
           STATUS_200 \o A_HEADER \o CRLF \o BODY,
           STATUS_200 \o CONTENT_LENGTH_4 \o CRLF \o <<"B", "o">>,
           STATUS_200 \o <<"A", COLON, SP, "b">>,
           STATUS_200 \o CONTENT_LENGTH \o <<COLON, SP>> \o DecimalBytes(BigBodyLen) \o CRLF
                      \o CRLF \o BigBody,
           STATUS_200 \o A_HEADER \o CRLF \o BigBody,
           STATUS_200 \o <<"a", COLON, SP, SP, "b", CR, LF>> \o Repeated(A_HEADER, MaxHeaders - 1)
                      \o <<"c", "o", "n", "t", "e", "n", "t", "-", "l", "e", "n", "g", "t", "h",
                            COLON, SP, "4", CR, LF>> \o CRLF \o BODY,
           STATUS_200 \o A_HEADER
                      \o <<"c", "O", "n", "T", "e", "N", "t", "-", "L", "e", "N", "g", "T", "h",
                            COLON, SP, SP, "4", CR, LF>>
                      \o A_HEADER \o CRLF \o BODY \o <<"X", "Y">>,
           STATUS_200 \o CONTENT_LENGTH \o <<COLON, SP, "-", "2", CR, LF>> \o CRLF \o BODY,
           STATUS_200 \o CONTENT_LENGTH \o <<COLON, SP, "x", CR, LF>> \o CRLF \o BODY >>

\* A splitting peer splits the first MaxFine bytes and the last MaxTail bytes
\* of its response at any point; elsewhere, and from a peer that sends whole
\* responses, a read gets all that is left or all there is room for.
MaxFine == 10
MaxTail == 8

\* The requests one engine serves when its peers send whole responses; one
\* request is followed when the peer splits.
MaxRequests == 2

\* ------------------------------------------------------------------ state

VARIABLES
    lang,            \* "c": src/c/http1_protocol.c, "cpp": httpcpp/http1_protocol.hpp
    peer,            \* "splitting" or "whole": how the peers deliver
    policy,          \* the response memory policy
    heap, live,      \* the allocated blocks and their images
    buffer,          \* the engine's buffer: [data, len, capacity]
    saved,           \* parse_response_safe's original_buffer
    headers_parsed, header_len, content_length,   \* the parse state
    response,        \* the response the running or last request fills
    ret,             \* Idle, Continue (reading), or what perform_request returned
    request, stream, \* the indexes of the request made and of the peer's stream
    pos,             \* the bytes of the stream the reads have delivered
    last_read,       \* the kind of the last read result of this request
    nreq,            \* the requests made so far
    wire,            \* the segments the last write handed to the transport
    bytes_written,   \* what that write stored in *bytes_written
    held,            \* an earlier safe-owning response the caller still holds
    io_policy,       \* the C engine's write policy
    calls,           \* the transport calls of this request: the write, the last read
    alloc_failed,    \* an allocation of this request failed
    method,          \* the method field of the caller's request after the last call
    last_call,       \* the function the caller called last
    transport,       \* the transport: "mock" (a test double), "tcp" or "unix"
    fd,              \* the descriptor the transport records
    open_fds,        \* the descriptors the transport opened that are open
    closes,          \* the close syscalls the last call to the transport issued
    tret,            \* what the last call to the transport returned
    tcall            \* what the last call to the transport or to init did

\* The transport's state.
tvars == <<transport, fd, open_fds, closes, tret, tcall>>

\* The record of a call: the candidate addresses of a connect, each by how
\* far it gets, and how many of them were tried; the descriptors handed to a
\* read or write syscall; the transport an init made and whether it was
\* destroyed.
NoCall == [cands |-> << >>, tried |-> 0, sys |-> {}, made |-> "none", destroyed |-> FALSE]

vars == <<lang, peer, policy, heap, live, buffer, saved, headers_parsed, header_len,
          content_length, response, ret, request, stream, pos, last_read, nreq,
          wire, bytes_written, held, io_policy, calls, alloc_failed, method, last_call,
          tvars>>

Idle == "idle"
NoHeld == [kept |-> FALSE]

\* `HttpResponse response = {}` of the callers.
ZeroResponse ==
    [status_code |-> 0, status_message |-> NULLP, body |-> NULLP, body_len |-> 0,
     headers |-> << >>, owned |-> NullBlock, content_length |-> 0]

St == [heap |-> heap, live |-> live, buffer |-> buffer, saved |-> saved,
       headers_parsed |-> headers_parsed, header_len |-> header_len,
       content_length |-> content_length, response |-> response, ret |-> ret]

Become(st) ==
    /\ heap' = st.heap
    /\ live' = st.live
    /\ buffer' = st.buffer
    /\ saved' = st.saved
    /\ headers_parsed' = st.headers_parsed
    /\ header_len' = st.header_len
    /\ content_length' = st.content_length
    /\ response' = st.response
    /\ ret' = st.ret

\* What a caller reads through a C response: each string up to its NUL, the
\* body by its length.  A pointer outside the allocated blocks, or a string
\* or body that runs out of the bytes written, reads as Undefined.
DerefStr(h, l, p) ==
    IF p.blk \in l /\ p.off >= 0 /\ CStrEnd(h[p.blk], p.off) < Len(h[p.blk])
    THEN CStr(h[p.blk], p.off) ELSE Undefined

DerefBytes(h, l, p, n) ==
    IF p.blk \in l /\ n >= 0 /\ p.off + n <= Len(h[p.blk])
    THEN Slice(h[p.blk], p.off, p.off + n) ELSE Undefined

ResponseValue(h, l, res) ==
    [status_code |-> res.status_code,
     status_message |-> DerefStr(h, l, res.status_message),
     headers |-> [i \in DOMAIN res.headers |->
                    <<DerefStr(h, l, res.headers[i].key),
                      DerefStr(h, l, res.headers[i].value)>>],
     body |-> DerefBytes(h, l, res.body, res.body_len)]

HeldBlocks == IF held.kept /\ lang = "c" THEN ResponseBlocks(held.res) ELSE {}

\* http_response_destroy(response)
http_response_destroy(st) ==
    IF st.response.owned # NullBlock
    THEN [free(st, st.response.owned) EXCEPT !.response.owned = NullBlock]
    ELSE st

\* What a pass on read result ev leaves undecided in state st: whether the
\* realloc of each growth moves the block (a null buffer has nothing to
\* move), what strstr finds in memory nobody wrote, when it gets there, and
\* whether the realloc that fits the buffer to the response fails.
GrowChoices(st) ==
    IF st.buffer.len = st.buffer.capacity /\ st.buffer.data # NullBlock
    THEN {"stays", "moves"} ELSE {"stays"}

GarbageRead(st, ev, mg) ==
    LET Stored(s1, m) ==
            IF ~s1.headers_parsed /\ strstr(m) = NotFound /\ CStrEnd(m, 0) = Len(m)
            THEN GarbageChoices ELSE {<<NUL>>}
        Grown(s0) == Stored(StoreRead(s0, ev.bytes),
                            Store(s0.heap[s0.buffer.data], s0.buffer.len, ev.bytes))
    IN  IF ev.kind = "error" THEN {<<NUL>>} ELSE Grown(GrowBeforeRead(st, mg, {}))

FitChoices(st, ev, mg, g) ==
    LET Found(s2) ==
            IF s2.ret = Continue /\ s2.headers_parsed /\ s2.content_length >= 0
               /\ s2.buffer.capacity < s2.header_len + s2.content_length + 1
            THEN {"stays", "moves", AllocFails} ELSE {"stays"}
    IN  IF ev.kind = "error" THEN {"stays"}
        ELSE Found(FindHeaders(StoreRead(GrowBeforeRead(st, mg, {}), ev.bytes), g))

Choices(st, ev) ==
    UNION {UNION {{[moved_grow |-> mg, garbage |-> g, moved_fit |-> mf] :
                      mf \in FitChoices(st, ev, mg, g)} :
                  g \in GarbageRead(st, ev, mg)} :
           mg \in GrowChoices(st)}

\* The sizes of a read that delivers bytes, `room` being the size asked for.
ReadSizes(room) ==
    LET total == Len(Streams[stream])
        most  == Min(room, total - pos)
    IN  {n \in 1..most :
            \/ n = most
            \/ peer = "splitting" /\ (pos + n <= MaxFine \/ pos + n >= total - MaxTail)}

\* ------------------------------------------------------------ C engine steps

\* The room the read of this pass is given: capacity - len, after the doubling
\* of a full buffer.
CReadRoom ==
    (IF buffer.len = buffer.capacity
     THEN (IF buffer.capacity = 0 THEN InitialCapacity ELSE buffer.capacity * 2)
     ELSE buffer.capacity) - buffer.len

HTTP_IO_COPY_WRITE == "copy_write"
HTTP_IO_VECTORED_WRITE == "vectored_write"

\* Line 229: a POST under the vectored policy goes out through writev.
Vectored(io, req) == req.method = POST /\ io = HTTP_IO_VECTORED_WRITE

\* A serialization that copies the body under either policy.
BuildRequestWithBody(io, st, req, moved, avoid) ==
    build_request_in_buffer([st EXCEPT !.ret = NONE], req,
                            get_content_length_from_request(req), moved, avoid)

\* Lines 229-249: the request serialized into the buffer, under the vectored
\* policy without its body.
BuildRequest(io, st, req, moved, avoid) ==
    IF Vectored(io, req)
    THEN build_request_headers_in_buffer([st EXCEPT !.ret = NONE], req, moved, avoid)
    ELSE build_request_in_buffer([st EXCEPT !.ret = NONE], req,
                                 get_content_length_from_request(req), moved, avoid)

\* Lines 235-248: the segments of the one write call, st being the engine
\* with the request built: the buffer, and under the vectored policy
\* body_len bytes at request->body as well.
WriteSegments(io, st, req) ==
    IF Vectored(io, req)
    THEN <<Slice(st.heap[st.buffer.data], 0, st.buffer.len),
           BodyBytes(req, get_content_length_from_request(req))>>
    ELSE <<Slice(st.heap[st.buffer.data], 0, st.buffer.len)>>

\* What the write of the segments segs that returns w stores in
\* *bytes_written: -1 with a failure, and else the bytes the one syscall took,
\* which are all of them or, when the transport may write short, the first.
BytesWritten(w, segs, short) ==
    LET len == IF Len(segs) = 2 THEN Len(segs[1]) + Len(segs[2])
               ELSE IF Len(segs) = 1 THEN Len(segs[1]) ELSE 0
    IN  IF len = 0 \/ w = Crash THEN {0}
        ELSE IF w # NONE THEN {0 - 1}
        ELSE {len} \cup (IF short THEN {1} ELSE {})

\* An engine that goes on to read whatever the write returned.
perform_request_ignoring_write(p, io, st, req, w, moved, avoid) ==
    LET Parse(s2) == IF p = HTTP_RESPONSE_SAFE_OWNING THEN BeginParseSafe(s2)
                     ELSE BeginParse(s2)
        Written(s1) ==
            IF s1.ret # NONE THEN s1
            ELSE Parse([s1 EXCEPT !.response.content_length = 0, !.ret = Continue])
    IN  Written(BuildRequest(io, st, req, moved, avoid))

\* http1_protocol_perform_request, lines 221-256, up to the first read: the
\* request serialized into the buffer and written with result w, and on
\* success content_length zeroed and the parse function of the policy p
\* entered.  A failed allocation or write is returned at once.
http1_protocol_perform_request(p, io, st, req, w, moved, avoid) ==
    LET Parse(s2) == IF p = HTTP_RESPONSE_SAFE_OWNING THEN BeginParseSafe(s2)
                     ELSE BeginParse(s2)
        Written(s1) ==
            IF s1.ret # NONE THEN s1
            ELSE IF w # NONE THEN [s1 EXCEPT !.ret = w]
            ELSE Parse([s1 EXCEPT !.response.content_length = 0, !.ret = Continue])
    IN  Written(BuildRequest(io, st, req, moved, avoid))

\* The record of a transport call in the log of a request; of the reads the
\* log keeps the last.
Called(log, op, err) ==
    IF op = "read" /\ Len(log) > 0 /\ log[Len(log)].op = "read"
    THEN [log EXCEPT ![Len(log)] = [op |-> op, err |-> err]]
    ELSE Append(log, [op |-> op, err |-> err])

\* perform_request is called with request q, its method being m, and a zeroed
\* response; the write ends with w and the peer will answer with stream s.
\* An owning response of the request before is kept if none is, and destroyed
\* otherwise.
CPerformRequest(q, m, s, w, moved) ==
    /\ lang = "c"
    /\ ret \notin {Continue, Crash}
    /\ nreq < (IF peer = "splitting" THEN 1 ELSE MaxRequests)
    /\ LET keep == ret = NONE /\ response.owned # NullBlock /\ ~held.kept
           s0   == IF keep THEN St ELSE http_response_destroy(St)
           avoid == IF keep THEN ResponseBlocks(response) ELSE HeldBlocks
           req  == [CallerRequests[q] EXCEPT !.method = m]
           s1   == BuildRequest(io_policy, [s0 EXCEPT !.response = ZeroResponse],
                                req, moved, avoid)
       IN  /\ held' = IF keep
                      THEN [kept |-> TRUE, res |-> response,
                            value |-> ResponseValue(heap, live, response)]
                      ELSE held
           /\ wire' = IF s1.ret # NONE THEN << >>
                      ELSE WriteSegments(io_policy, s1, req)
           /\ calls' = IF s1.ret # NONE THEN << >>
                       ELSE Called(<< >>,
                                   IF Vectored(io_policy, req) THEN "writev" ELSE "write", w)
           /\ alloc_failed' = (s1.ret # NONE)
           /\ Become(http1_protocol_perform_request(policy, io_policy,
                        [s0 EXCEPT !.response = ZeroResponse], req, w, moved, avoid))
    /\ request' = q
    /\ method' = m
    /\ stream' = s
    /\ pos' = 0
    /\ last_read' = "none"
    /\ nreq' = nreq + 1
    /\ UNCHANGED <<lang, peer, policy, io_policy, tvars>>

\* The addresses an allocation of this pass keeps clear of: those the held
\* response names, or, as a freed block's address may be handed out again,
\* only those that are still allocated.
Avoids == {HeldBlocks, HeldBlocks \cap live}

\* One pass of the read loop on the read result ev.
CPass(ev, ch, avoid) ==
    /\ Become(parse_response(policy, St, ev, ch, avoid))
    /\ pos' = pos + Len(ev.bytes)
    /\ last_read' = ev.kind
    /\ calls' = Called(calls, "read", ev.err)
    /\ alloc_failed' = (ch.moved_fit = AllocFails)
    /\ UNCHANGED <<lang, peer, policy, request, stream, nreq, wire, bytes_written, held,
                   io_policy,                    method, last_call, tvars>>

Reading(l) == lang = l /\ ret = Continue

CRead ==
    /\ Reading("c")
    /\ \E n \in ReadSizes(CReadRoom), avoid \in Avoids :
          LET ev == DataRead(Slice(Streams[stream], pos, pos + n))
          IN  \E ch \in Choices(St, ev) : CPass(ev, ch, avoid)

CClosed ==
    /\ Reading("c")
    /\ \E avoid \in Avoids, ch \in Choices(St, ClosedRead) : CPass(ClosedRead, ch, avoid)

CReadFails ==
    /\ Reading("c")
    /\ \E e \in TransportFailures, avoid \in Avoids :
          \E ch \in Choices(St, FailedRead(e)) : CPass(FailedRead(e), ch, avoid)

\* A pass of the read loop whose doubling of the full buffer fails (lines
\* 112-117): the request returns before the read.
CGrowFails ==
    /\ Reading("c")
    /\ buffer.len = buffer.capacity
    /\ Become(parse_response(policy, St, ClosedRead,
                 [moved_grow |-> AllocFails, garbage |-> <<NUL>>, moved_fit |-> "stays"], {}))
    /\ alloc_failed' = TRUE
    /\ UNCHANGED <<lang, peer, policy, request, stream, pos, last_read, nreq, wire, bytes_written, held,
                   io_policy, calls, method, last_call, tvars>>

\* -------------------------------------------------------- C++ engine steps

CppReadRoom == Max(buffer.capacity - buffer.len, MinRead)

\* perform_request_unsafe, lines 69-75, up to the first read: the request
\* built and written with result w, and on success read_full_response entered.
perform_request_unsafe(st, req, w) ==
    IF w # NONE THEN [build_request_string(st, req, {}) EXCEPT !.ret = w]
    ELSE [BeginRead(build_request_string(st, req, {})) EXCEPT !.ret = Continue]

\* The caller makes request q through perform_request_unsafe or _safe (p); the
\* write ends with w and the peer will answer with stream s.  A safe response
\* of the request before is kept if none is.
CppPerformRequest(q, m, s, p, w) ==
    /\ lang = "cpp"
    /\ ret \notin {Continue, Crash}
    /\ nreq < (IF peer = "splitting" THEN 1 ELSE MaxRequests)
    /\ LET keep == ret = NONE /\ policy = HTTP_RESPONSE_SAFE_OWNING /\ ~held.kept
           s0   == [St EXCEPT !.response = NoResponse]
           req  == [CallerRequests[q] EXCEPT !.method = m]
           s1   == build_request_string(s0, req, {})
       IN  /\ held' = IF keep THEN [kept |-> TRUE, res |-> response, value |-> response]
                      ELSE held
           /\ wire' = <<s1.heap[s1.buffer.data]>>
           /\ Become(perform_request_unsafe(s0, req, w))
    /\ calls' = Called(<< >>, "write", w)
    /\ alloc_failed' = FALSE
    /\ policy' = p
    /\ request' = q
    /\ method' = m
    /\ stream' = s
    /\ pos' = 0
    /\ last_read' = "none"
    /\ nreq' = nreq + 1
    /\ UNCHANGED <<lang, peer, io_policy, tvars>>

\* One pass of the read loop on the read result ev.
CppPass(ev) ==
    /\ Become(read_full_response(policy, St, ev, {}))
    /\ pos' = pos + Len(ev.bytes)
    /\ last_read' = ev.kind
    /\ calls' = Called(calls, "read", ev.err)
    /\ UNCHANGED <<lang, peer, policy, request, stream, nreq, wire, bytes_written, held,
                   io_policy, alloc_failed, method, last_call, tvars>>

CppRead ==
    /\ Reading("cpp")
    /\ \E n \in ReadSizes(CppReadRoom) :
          CppPass(DataRead(Slice(Streams[stream], pos, pos + n)))

CppClosed == Reading("cpp") /\ CppPass(ClosedRead)

CppReadFails == Reading("cpp") /\ \E e \in TransportFailures : CppPass(FailedRead(e))

\* An allocation of the vector fails: buffer_.insert of build_request_string
\* (line 93) on an engine that has no storage yet, or buffer_.resize of the
\* read loop (line 131) when it must allocate.  std::bad_alloc leaves a
\* noexcept function, which ends the process.
CppBadAlloc ==
    /\ lang = "cpp"
    /\ \/ ret = Continue /\ buffer.len + CppReadRoom > buffer.capacity
       \/ ret \notin {Continue, Crash} /\ buffer.capacity = 0
    /\ ret' = Crash
    /\ alloc_failed' = TRUE
    /\ UNCHANGED <<lang, peer, policy, heap, live, buffer, saved, headers_parsed,
                   header_len, content_length, response, request, stream, pos,
                   last_read, nreq, wire, bytes_written, held, io_policy, calls, method,
                   last_call, tvars>>

\* ------------------------------------------------------------ specification

\* An engine as http1_protocol_new or the constructor leaves it, and the
\* response its caller starts with.
NewEngine(l) ==
    [heap |-> << >>, live |-> {}, buffer |-> EmptyBuffer, saved |-> EmptyBuffer,
     headers_parsed |-> FALSE, header_len |-> 0, content_length |-> UnknownLength,
     response |-> IF l = "c" THEN ZeroResponse ELSE NoResponse, ret |-> Idle]

Init ==
    /\ lang \in {"c", "cpp"}
    /\ peer \in {"splitting", "whole"}
    /\ policy \in {HTTP_RESPONSE_UNSAFE_ZERO_COPY, HTTP_RESPONSE_SAFE_OWNING}
    /\ heap = NewEngine(lang).heap
    /\ live = NewEngine(lang).live
    /\ buffer = NewEngine(lang).buffer
    /\ saved = NewEngine(lang).saved
    /\ headers_parsed = NewEngine(lang).headers_parsed
    /\ header_len = NewEngine(lang).header_len
    /\ content_length = NewEngine(lang).content_length
    /\ response = NewEngine(lang).response
    /\ ret = NewEngine(lang).ret
    /\ request = 0
    /\ stream = 0
    /\ pos = 0
    /\ last_read = "none"
    /\ nreq = 0
    /\ wire = << >>
    /\ bytes_written = 0
    /\ held = NoHeld
    /\ io_policy \in IF lang = "c" THEN {HTTP_IO_COPY_WRITE, HTTP_IO_VECTORED_WRITE}
                      ELSE {HTTP_IO_COPY_WRITE}
    /\ calls = << >>
    /\ alloc_failed = FALSE
    /\ method = GET
    /\ last_call = "new"
    /\ transport = "mock"
    /\ fd = 0
    /\ open_fds = {}
    /\ closes = 0
    /\ tret = NONE
    /\ tcall = NoCall

\* The engines on a transport of the tests, which gives every result a
\* transport may give, their peers answering with the first six streams.
Next ==
    \/ \E q \in DOMAIN Requests, s \in 1..6, w \in {NONE} \cup TransportFailures,
          moved \in {"stays", AllocFails} :
          /\ CPerformRequest(q, Requests[q].method, s, w, moved)
          /\ last_call' = "perform_request"
          /\ bytes_written' \in BytesWritten(w, wire', FALSE)
    \/ CRead
    \/ CClosed
    \/ CReadFails
    \/ CGrowFails
    \/ \E q \in DOMAIN Requests, s \in 1..6,
          p \in {HTTP_RESPONSE_UNSAFE_ZERO_COPY, HTTP_RESPONSE_SAFE_OWNING},
          w \in {NONE} \cup TransportFailures :
          /\ CppPerformRequest(q, Requests[q].method, s, p, w)
          /\ last_call' = "perform_request"
          /\ bytes_written' \in BytesWritten(w, wire', FALSE)
    \/ CppRead
    \/ CppClosed
    \/ CppReadFails
    \/ CppBadAlloc

Spec == Init /\ [][Next]_vars

\* The engines on a transport that writes and reads without error, their
\* peers answering whole with the streams that differ in their header lines
\* and in how they end.
NextHeaders ==
    \/ \E q \in DOMAIN Requests, s \in {1, 2, 4, 7, 8, 9, 10} :
          /\ peer = "whole"
          /\ CPerformRequest(q, Requests[q].method, s, NONE, "stays")
          /\ last_call' = "perform_request"
          /\ bytes_written' \in BytesWritten(NONE, wire', TRUE)
    \/ CRead
    \/ CClosed
    \/ \E q \in DOMAIN Requests, s \in {1, 2, 4, 7, 8, 9, 10},
          p \in {HTTP_RESPONSE_UNSAFE_ZERO_COPY, HTTP_RESPONSE_SAFE_OWNING} :
          /\ peer = "whole"
          /\ CppPerformRequest(q, Requests[q].method, s, p, NONE)
          /\ last_call' = "perform_request"
          /\ bytes_written' \in BytesWritten(NONE, wire', TRUE)
    \/ CppRead
    \/ CppClosed

SpecHeaders == Init /\ [][NextHeaders]_vars

\* The engines on a transport whose write succeeds and whose reads give
\* bytes, then the close of the peer or an error, no allocation failing.
NextLive ==
    \/ \E q \in DOMAIN Requests, s \in {1, 2, 3, 4} :
          /\ CPerformRequest(q, Requests[q].method, s, NONE, "stays")
          /\ last_call' = "perform_request"
          /\ bytes_written' \in BytesWritten(NONE, wire', FALSE)
    \/ CRead
    \/ CClosed
    \/ CReadFails
    \/ \E q \in DOMAIN Requests, s \in {1, 2, 3, 4},
          p \in {HTTP_RESPONSE_UNSAFE_ZERO_COPY, HTTP_RESPONSE_SAFE_OWNING} :
          /\ CppPerformRequest(q, Requests[q].method, s, p, NONE)
          /\ last_call' = "perform_request"
          /\ bytes_written' \in BytesWritten(NONE, wire', FALSE)
    \/ CppRead
    \/ CppClosed
    \/ CppReadFails

\* The read loop calls read again whenever it has not left, and each read
\* of the transport returns; the peer sends finitely many bytes, so that a
\* loop that goes on reading is in the end given the close or an error.
SpecLive ==
    /\ Init
    /\ [][NextLive]_vars
    /\ WF_last_read(ret = Continue /\ last_read' \in {"closed", "error"})

\* ------------------------------------------------- the client and transports

\* The error codes with a resolution failure reported as a connect failure.
TransportErrorCodeWithoutDns ==
    [DNS_FAILURE |-> "SocketConnectFailure", SOCKET_CREATE_FAILURE |-> "SocketCreateFailure",
     SOCKET_CONNECT_FAILURE |-> "SocketConnectFailure",
     SOCKET_CLOSE_FAILURE |-> "SocketCloseFailure",
     INIT_FAILURE |-> "TransportInitFailure"]

TransportErrorCode ==
    [DNS_FAILURE |-> "DnsFailure", SOCKET_CREATE_FAILURE |-> "SocketCreateFailure",
     SOCKET_CONNECT_FAILURE |-> "SocketConnectFailure",
     SOCKET_CLOSE_FAILURE |-> "SocketCloseFailure",
     INIT_FAILURE |-> "TransportInitFailure"]

INVALID_REQUEST_SYNTAX == "InvalidRequest"

\* http_client_post, lines 36-51: the error the request is rejected with, or
\* NONE.  The body is tested as a pointer.
http_client_post(req) ==
    IF req.body_null THEN INVALID_REQUEST_SYNTAX
    ELSE IF \E i \in 1..Len(req.headers) : strcasecmp(req.headers[i].key, CONTENT_LENGTH) = 0
    THEN NONE
    ELSE INVALID_REQUEST_SYNTAX

\* A validation that compares the keys letter for letter.
validate_post_request_exact(req) ==
    IF req.body = << >> THEN INVALID_REQUEST_SYNTAX
    ELSE IF \E i \in 1..Len(req.headers) : req.headers[i].key = CONTENT_LENGTH
    THEN NONE
    ELSE INVALID_REQUEST_SYNTAX

\* validate_post_request: the error the request is rejected with, or NONE.
validate_post_request(req) ==
    IF req.body = << >> THEN INVALID_REQUEST_SYNTAX
    ELSE IF \E i \in 1..Len(req.headers) :
               /\ Len(req.headers[i].key) = Len(CONTENT_LENGTH)
               /\ \A k \in 1..Len(CONTENT_LENGTH) :
                     UpperOf(req.headers[i].key[k]) = UpperOf(CONTENT_LENGTH[k])
    THEN NONE
    ELSE INVALID_REQUEST_SYNTAX

\* The descriptor of a transport that has none: 0 in the C transports
\* (memset, `fd > 0`), -1 in the C++ ones.
NoFd(l) == IF l = "c" THEN 0 ELSE 0 - 1

\* The entries tcp_transport_new and unix_transport_new set in the interface
\* of the transport; the others are null.
Interface(t) ==
    IF t = "tcp" THEN {"connect", "write", "writev", "read", "close", "destroy"}
    ELSE {"connect", "write", "read", "close"}

\* The results a write may have: any, on a descriptor that is open; on a
\* transport that checks its descriptor and has none, a write failure.  The
\* C unix transport makes no check and sets no writev entry: a vectored POST
\* calls a null pointer.
WriteResults(req) ==
    IF lang = "c" /\ Vectored(io_policy, req) /\ "writev" \notin Interface(transport)
    THEN {Crash}
    ELSE IF fd = NoFd(lang) /\ ~(transport = "unix" /\ lang = "c")
    THEN {SOCKET_WRITE_FAILURE}
    ELSE {NONE} \cup TransportFailures

\* A call the client rejects returns before it touches the request, the engine
\* or the transport.
Rejected(f, q, err) ==
    /\ ret' = err
    /\ request' = q
    /\ method' = CallerRequests[q].method
    /\ last_call' = f
    /\ calls' = << >>
    /\ nreq' = nreq + 1
    /\ UNCHANGED <<lang, peer, policy, heap, live, buffer, saved, headers_parsed,
                   header_len, content_length, response, stream, pos, last_read,
                   wire, bytes_written, held, io_policy, alloc_failed, tvars>>

\* A client whose get hands every request on.
CClientGetDelegates(f, q, s, moved) ==
    LET req == CallerRequests[q]
        err == IF f = "get" THEN NONE ELSE http_client_post(req)
        m   == IF f = "get" THEN GET ELSE POST
    IN  /\ lang = "c"
        /\ ret \notin {Continue, Crash}
        /\ nreq < MaxRequests
        /\ IF err # NONE THEN Rejected(f, q, err)
           ELSE /\ \E w \in WriteResults([req EXCEPT !.method = m]) :
                      /\ CPerformRequest(q, m, s, w, moved)
                      /\ bytes_written' \in BytesWritten(w, wire', FALSE)
                /\ last_call' = f

\* http_client_get and http_client_post (httpc.c) called with request q.
CClient(f, q, s, moved) ==
    LET req == CallerRequests[q]
        http_client_get == IF ~req.body_null THEN INVALID_REQUEST_SYNTAX ELSE NONE
        err == IF f = "get" THEN http_client_get ELSE http_client_post(req)
        m   == IF f = "get" THEN GET ELSE POST
    IN  /\ lang = "c"
        /\ ret \notin {Continue, Crash}
        /\ nreq < MaxRequests
        /\ IF err # NONE THEN Rejected(f, q, err)
           ELSE /\ \E w \in WriteResults([req EXCEPT !.method = m]) :
                      /\ CPerformRequest(q, m, s, w, moved)
                      /\ bytes_written' \in BytesWritten(w, wire', FALSE)
                /\ last_call' = f

\* get_safe, get_unsafe, post_safe and post_unsafe (httpcpp.hpp) called with
\* request q.
CppClient(f, q, s, p) ==
    LET req == CallerRequests[q]
        get_unsafe == IF req.body # << >> THEN INVALID_REQUEST_SYNTAX ELSE NONE
        err == IF f = "get" THEN get_unsafe ELSE validate_post_request(req)
        m   == IF f = "get" THEN GET ELSE POST
    IN  /\ lang = "cpp"
        /\ ret \notin {Continue, Crash}
        /\ nreq < MaxRequests
        /\ IF err # NONE THEN Rejected(f, q, err)
           ELSE /\ \E w \in WriteResults([req EXCEPT !.method = m]) :
                      /\ CppPerformRequest(q, m, s, p, w)
                      /\ bytes_written' \in BytesWritten(w, wire', FALSE)
                /\ last_call' = f

\* tcp_transport_close and unix_transport_close, which are the same code: the
\* descriptor recorded after the call, the descriptor closed by a syscall
\* (0: none) and the result, `ok` telling whether the syscall succeeds.
tcp_transport_close(d, ok) ==
    IF d > 0
    THEN [fd |-> 0, closed |-> d,
          ret |-> IF ok THEN NONE ELSE TransportErrorCode.SOCKET_CLOSE_FAILURE]
    ELSE [fd |-> d, closed |-> 0, ret |-> NONE]

\* UnixTransport::close
UnixTransport_close(d, ok) ==
    IF d = 0 - 1 THEN [fd |-> d, closed |-> 0, ret |-> NONE]
    ELSE [fd |-> 0 - 1, closed |-> d,
          ret |-> IF ok THEN NONE ELSE TransportErrorCode.SOCKET_CLOSE_FAILURE]

\* TcpTransport::close.  A socket_.close(ec) whose syscall fails leaves the
\* socket as the library decides: open still (`kept`), as that of libstdc++
\* does, or closed.
TcpTransport_close(d, ok, kept) ==
    IF d = 0 - 1 THEN [fd |-> d, closed |-> 0, ret |-> NONE]
    ELSE IF ok THEN [fd |-> 0 - 1, closed |-> d, ret |-> NONE]
    ELSE [fd |-> IF kept THEN d ELSE 0 - 1, closed |-> d,
          ret |-> TransportErrorCode.SOCKET_CLOSE_FAILURE]

\* The lowest descriptor socket() gives a transport, and the number of
\* descriptors a run leaves open at most.
SocketFd == 3
MaxOpen == 2

\* The candidate addresses a resolution gives at most.
MaxCandidates == 2

\* disconnect of the client, which is close of its transport.  The
\* descriptor of a close syscall that fails stays open when `kept`.
Close(ok, kept) ==
    LET t == IF lang = "c" THEN tcp_transport_close(fd, ok)
             ELSE IF transport = "unix" THEN UnixTransport_close(fd, ok)
             ELSE TcpTransport_close(fd, ok, kept)
    IN  /\ fd' = t.fd
        /\ open_fds' = IF ok \/ ~kept THEN open_fds \ {t.closed} ELSE open_fds
        /\ closes' = IF t.closed = 0 THEN 0 ELSE 1
        /\ tret' = t.ret
        /\ tcall' = NoCall
        /\ last_call' = "close"
        /\ UNCHANGED <<lang, peer, policy, heap, live, buffer, saved, headers_parsed,
                       header_len, content_length, response, ret, request, stream, pos,
                       last_read, nreq, wire, bytes_written, held, io_policy, calls, alloc_failed,
                       method, transport>>

\* connect of the client, which is connect of its transport.  The resolution
\* fails (dns, TCP only) or gives the candidate addresses os, each named by
\* how far a connect to it gets: "socket" (no socket is made), "refused" (the
\* socket does not connect), "nodelay" (it connects and setsockopt fails, TCP
\* only) or "ok"; a Unix transport has the one address.  The closes whose
\* result connect does not look at are taken to succeed; ok and kept are the
\* result of the one it looks at, as in Close.
Connect(dns, os, ok, kept) ==
    LET E == TransportErrorCode
        Free(open) == SetMin({d \in SocketFd..(SocketFd + MaxOpen + 1) : d \notin open})
        \* tcp_transport_connect, lines 26-44: the loop from candidate i on.
        \* A socket that does not connect or take the option is closed and the
        \* next candidate tried.
        RECURSIVE CLoop(_, _)
        CLoop(i, st) ==
            IF i > Len(os) THEN st
            ELSE IF os[i] = "socket"
            THEN CLoop(i + 1, [st EXCEPT !.sfd = 0 - 1, !.tried = i])
            ELSE IF os[i] \in {"refused", "nodelay"}
            THEN CLoop(i + 1, [st EXCEPT !.sfd = 0 - 1, !.tried = i, !.closes = @ + 1])
            ELSE [st EXCEPT !.sfd = Free(st.open), !.tried = i,
                            !.open = @ \cup {Free(st.open)}]
        c == CLoop(1, [sfd |-> 0 - 1, open |-> open_fds, closes |-> 0, tried |-> 0])
        \* Lines 21-24 and 46-53: the descriptor of a success overwrites the
        \* one recorded.
        tcp_transport_connect ==
            IF dns THEN [fd |-> fd, open |-> open_fds, closes |-> 0, tried |-> 0,
                         ret |-> E.DNS_FAILURE]
            ELSE IF c.sfd = 0 - 1
            THEN [fd |-> fd, open |-> c.open, closes |-> c.closes, tried |-> c.tried,
                  ret |-> E.SOCKET_CONNECT_FAILURE]
            ELSE [fd |-> c.sfd, open |-> c.open, closes |-> c.closes, tried |-> c.tried,
                  ret |-> NONE]
        unix_transport_connect ==
            IF os[1] = "socket"
            THEN [fd |-> fd, open |-> open_fds, closes |-> 0, tried |-> 1,
                  ret |-> E.SOCKET_CREATE_FAILURE]
            ELSE IF os[1] = "refused"
            THEN [fd |-> fd, open |-> open_fds, closes |-> 1, tried |-> 1,
                  ret |-> E.SOCKET_CONNECT_FAILURE]
            ELSE [fd |-> Free(open_fds), open |-> open_fds \cup {Free(open_fds)},
                  closes |-> 0, tried |-> 1, ret |-> NONE]
        \* UnixTransport::connect refuses while it holds a descriptor.
        UnixTransport_connect ==
            IF fd # 0 - 1
            THEN [fd |-> fd, open |-> open_fds, closes |-> 0, tried |-> 0,
                  ret |-> E.SOCKET_CONNECT_FAILURE]
            ELSE IF os[1] = "socket"
            THEN [fd |-> 0 - 1, open |-> open_fds, closes |-> 0, tried |-> 1,
                  ret |-> E.SOCKET_CREATE_FAILURE]
            ELSE IF os[1] = "refused"
            THEN [fd |-> 0 - 1, open |-> open_fds, closes |-> 1, tried |-> 1,
                  ret |-> E.SOCKET_CONNECT_FAILURE]
            ELSE [fd |-> Free(open_fds), open |-> open_fds \cup {Free(open_fds)},
                  closes |-> 0, tried |-> 1, ret |-> NONE]
        \* TcpTransport::connect, lines 29-38: the loop from candidate i on.
        \* It closes the socket it has, and socket_.connect opens one, which
        \* stays open when it does not connect; the loop ends at the first
        \* that connects.
        RECURSIVE CppLoop(_, _)
        CppLoop(i, st) ==
            IF i > Len(os) THEN st
            ELSE LET was  == IF st.sock = 0 - 1 THEN 0 ELSE 1
                     rest == st.open \ {st.sock}
                 IN  IF os[i] = "socket"
                     THEN CppLoop(i + 1, [sock |-> 0 - 1, open |-> rest, ec |-> TRUE,
                                          closes |-> st.closes + was, tried |-> i])
                     ELSE IF os[i] = "refused"
                     THEN CppLoop(i + 1, [sock |-> Free(rest), open |-> rest \cup {Free(rest)},
                                          ec |-> TRUE, closes |-> st.closes + was,
                                          tried |-> i])
                     ELSE [sock |-> Free(rest), open |-> rest \cup {Free(rest)},
                           ec |-> FALSE, closes |-> st.closes + was, tried |-> i]
        p == CppLoop(1, [sock |-> fd, open |-> open_fds, ec |-> FALSE, closes |-> 0,
                         tried |-> 0])
        \* Lines 19-23 and 40-53: when no_delay cannot be set, close() follows
        \* and no other candidate is tried.
        TcpTransport_connect ==
            IF dns THEN [fd |-> fd, open |-> open_fds, closes |-> 0, tried |-> 0,
                         ret |-> E.DNS_FAILURE]
            ELSE IF p.ec
            THEN [fd |-> p.sock, open |-> p.open, closes |-> p.closes, tried |-> p.tried,
                  ret |-> E.SOCKET_CONNECT_FAILURE]
            ELSE IF os[p.tried] = "nodelay"
            THEN LET cl == TcpTransport_close(p.sock, ok, kept)
                 IN  [fd |-> cl.fd,
                      open |-> IF ok \/ ~kept THEN p.open \ {p.sock} ELSE p.open,
                      closes |-> p.closes + 1, tried |-> p.tried,
                      ret |-> IF cl.ret # NONE THEN cl.ret ELSE E.SOCKET_CONNECT_FAILURE]
            ELSE [fd |-> p.sock, open |-> p.open, closes |-> p.closes, tried |-> p.tried,
                  ret |-> NONE]
        t == IF lang = "c" THEN (IF transport = "tcp" THEN tcp_transport_connect
                                 ELSE unix_transport_connect)
             ELSE IF transport = "unix" THEN UnixTransport_connect
             ELSE TcpTransport_connect
    IN  /\ transport = "unix" => ~dns /\ Len(os) = 1 /\ os[1] # "nodelay"
        /\ Cardinality(open_fds) < MaxOpen
        /\ fd' = t.fd
        /\ open_fds' = t.open
        /\ closes' = t.closes
        /\ tret' = t.ret
        /\ tcall' = [NoCall EXCEPT !.cands = IF dns THEN << >> ELSE os, !.tried = t.tried]
        /\ last_call' = "connect"
        /\ UNCHANGED <<lang, peer, policy, heap, live, buffer, saved, headers_parsed,
                       header_len, content_length, response, ret, request, stream, pos,
                       last_read, nreq, wire, bytes_written, held, io_policy, calls, alloc_failed,
                       method, transport>>

\* write ("write"), writev of a C transport ("writev") and read ("read")
\* called on the transport; res is what the syscall, if one is made, gives:
\* bytes ("done"), an error ("error") or, for a read, the end of the stream
\* ("eof").  A syscall on a descriptor that is not open gives an error,
\* except on descriptor 0 of the process.  The C++ TCP transport hands the
\* descriptor of its socket, open or not, to the library's send and receive.
Transfer(op, res) ==
    LET E == IF op = "read" THEN SOCKET_READ_FAILURE ELSE SOCKET_WRITE_FAILURE
        checked == IF lang = "c" THEN transport = "tcp" /\ fd <= 0
                   ELSE transport = "unix" /\ fd = 0 - 1
        null == lang = "c" /\ op \notin Interface(transport)
        sys == IF fd \notin open_fds /\ fd # 0 THEN "error" ELSE res
    IN  /\ op = "writev" => lang = "c"
        /\ res = "eof" => op = "read"
        /\ tret' = IF null THEN Crash
                   ELSE IF checked \/ sys = "error" THEN E
                   ELSE IF sys = "eof" THEN CONNECTION_CLOSED
                   ELSE NONE
        /\ tcall' = [NoCall EXCEPT !.sys = IF null \/ checked THEN {} ELSE {fd}]
        /\ closes' = 0
        /\ last_call' = op
        /\ UNCHANGED <<lang, peer, policy, heap, live, buffer, saved, headers_parsed,
                       header_len, content_length, response, ret, request, stream, pos,
                       last_read, nreq, wire, bytes_written, held, io_policy, calls, alloc_failed,
                       method, transport, fd, open_fds>>

\* http_client_init(self, tt, pt, policy) on a struct that holds no client
\* yet: the transport of type tt is made, then the protocol of type pt, and
\* when there is no protocol the destroy entry of the transport is called.
HttpClientInit(tt, pt) ==
    LET made == IF tt \in {"tcp", "unix"} THEN tt ELSE "none"
        r == IF made = "none" THEN TransportErrorCode.INIT_FAILURE
             ELSE IF pt = "http1" THEN NONE
             ELSE IF "destroy" \in Interface(made) THEN "HttpcInitFailure"
             ELSE Crash
    IN  /\ lang = "c"
        /\ last_call \in {"new", "init"}
        /\ fd = NoFd(lang)
        /\ tret # Crash
        /\ tret' = r
        /\ transport' = IF r = NONE THEN tt ELSE transport
        /\ tcall' = [NoCall EXCEPT !.made = made,
                                   !.destroyed = (made # "none" /\ r = "HttpcInitFailure")]
        /\ last_call' = "init"
        /\ UNCHANGED <<lang, peer, policy, heap, live, buffer, saved, headers_parsed,
                       header_len, content_length, response, ret, request, stream, pos,
                       last_read, nreq, wire, bytes_written, held, io_policy, calls, alloc_failed,
                       method, fd, open_fds, closes>>

\* A client of http_client_init or HttpClient<> on a TCP or a Unix transport
\* that is connected or not, its peers sending whole responses.
InitClient ==
    /\ lang \in {"c", "cpp"}
    /\ peer = "whole"
    /\ policy \in {HTTP_RESPONSE_UNSAFE_ZERO_COPY, HTTP_RESPONSE_SAFE_OWNING}
    /\ heap = NewEngine(lang).heap
    /\ live = NewEngine(lang).live
    /\ buffer = NewEngine(lang).buffer
    /\ saved = NewEngine(lang).saved
    /\ headers_parsed = NewEngine(lang).headers_parsed
    /\ header_len = NewEngine(lang).header_len
    /\ content_length = NewEngine(lang).content_length
    /\ response = NewEngine(lang).response
    /\ ret = NewEngine(lang).ret
    /\ request = 0
    /\ stream = 0
    /\ pos = 0
    /\ last_read = "none"
    /\ nreq = 0
    /\ wire = << >>
    /\ bytes_written = 0
    /\ held = NoHeld
    /\ io_policy \in IF lang = "c" THEN {HTTP_IO_COPY_WRITE, HTTP_IO_VECTORED_WRITE}
                      ELSE {HTTP_IO_COPY_WRITE}
    /\ calls = << >>
    /\ alloc_failed = FALSE
    /\ method = GET
    /\ last_call = "new"
    /\ transport \in {"tcp", "unix"}
    /\ fd \in {NoFd(lang), SocketFd}
    /\ open_fds = {fd} \ {NoFd(lang)}
    /\ closes = 0
    /\ tret = NONE
    /\ tcall = NoCall

\* The calls of a client, whose peers answer with the first two streams.
NextClient ==
    \/ \E f \in {"get", "post"}, q \in DOMAIN CallerRequests, s \in 1..2,
          moved \in {"stays", AllocFails} :
          CClient(f, q, s, moved)
    \/ \E f \in {"get", "post"}, q \in DOMAIN CallerRequests, s \in 1..2,
          p \in {HTTP_RESPONSE_UNSAFE_ZERO_COPY, HTTP_RESPONSE_SAFE_OWNING} :
          CppClient(f, q, s, p)
    \/ CRead
    \/ CClosed
    \/ CReadFails
    \/ CGrowFails
    \/ CppRead
    \/ CppClosed
    \/ CppReadFails
    \/ CppBadAlloc

SpecClient == InitClient /\ [][NextClient]_vars

\* The calls on a client whose C++ Unix transport connects again over the
\* connection it has.
NextTransportConnectingAgain ==
    \/ \E dns \in BOOLEAN, n \in 1..MaxCandidates, ok \in BOOLEAN, kept \in BOOLEAN :
          \E os \in [1..n -> {"socket", "refused", "nodelay", "ok"}] :
             IF lang = "cpp" /\ transport = "unix" /\ fd # 0 - 1
             THEN /\ ~dns /\ n = 1 /\ os[1] = "ok"
                  /\ Cardinality(open_fds) < MaxOpen
                  /\ fd' = SetMin({d \in SocketFd..(SocketFd + MaxOpen + 1) :
                                      d \notin open_fds})
                  /\ open_fds' = open_fds \cup {fd'}
                  /\ closes' = 0
                  /\ tret' = NONE
                  /\ tcall' = [NoCall EXCEPT !.cands = os, !.tried = 1]
                  /\ last_call' = "connect"
                  /\ UNCHANGED <<lang, peer, policy, heap, live, buffer, saved,
                                 headers_parsed, header_len, content_length, response,
                                 ret, request, stream, pos, last_read, nreq, wire, bytes_written, held,
                                 io_policy, calls, alloc_failed, method, transport>>
             ELSE Connect(dns, os, ok, kept)
    \/ \E ok \in BOOLEAN, kept \in BOOLEAN : Close(ok, kept)
    \/ \E op \in {"write", "writev", "read"}, res \in {"done", "error", "eof"} :
          Transfer(op, res)
    \/ \E tt \in {"tcp", "unix", "unknown"}, pt \in {"http1", "unknown"} :
          HttpClientInit(tt, pt)

\* The connects and closes of a client between its requests.
NextTransport ==
    \/ \E dns \in BOOLEAN, n \in 1..MaxCandidates, ok \in BOOLEAN, kept \in BOOLEAN :
          \E os \in [1..n -> {"socket", "refused", "nodelay", "ok"}] :
             Connect(dns, os, ok, kept)
    \/ \E ok \in BOOLEAN, kept \in BOOLEAN : Close(ok, kept)
    \/ \E op \in {"write", "writev", "read"}, res \in {"done", "error", "eof"} :
          Transfer(op, res)
    \/ \E tt \in {"tcp", "unix", "unknown"}, pt \in {"http1", "unknown"} :
          HttpClientInit(tt, pt)

SpecTransport == InitClient /\ [][NextTransport]_vars

\* ------------------------------------------------------------ observations

\* The bytes the reads of the current request have delivered.
Received == Slice(Streams[stream], 0, pos)

\* The offset of the first header terminator in the received bytes, or NotFound.
Terminator == search(Received)

\* The Content-Length the received header block declares, or UnknownLength.
DeclaredLength ==
    LET hv == Slice(Received, 0, Terminator + 4)
    IN  ScanContentLength(hv, FindCRLF(hv, 0) + 2)

\* perform_request has returned (or the process has died in it).
Done == ret \notin {Idle, Continue}

\* The response as its caller reads it.
Returned ==
    IF lang = "c" THEN ResponseValue(heap, live, response)
    ELSE LET r == IF policy = HTTP_RESPONSE_SAFE_OWNING THEN response
                  ELSE SafeCopy(heap, live, response)
         IN  [status_code |-> r.status_code, status_message |-> r.status_message,
              headers |-> r.headers, body |-> r.body]

\* The views of a C response.
ViewsOf(res) ==
    {res.status_message, res.body}
      \cup {res.headers[i].key : i \in DOMAIN res.headers}
      \cup {res.headers[i].value : i \in DOMAIN res.headers}

\* What a request gives its caller: the error, and on success the response.
Outcome(st) ==
    [ret |-> st.ret,
     response |-> IF st.ret = NONE THEN ResponseValue(st.heap, st.live, st.response)
                  ELSE << >>]

\* The C engine's first request served by one read of the bytes received,
\* followed by the close or failure that ended the reads, if one did.
OneRead ==
    LET ch == [moved_grow |-> "stays", moved_fit |-> "stays", garbage |-> <<NUL>>]
        s0 == http1_protocol_perform_request(policy, io_policy, NewEngine("c"),
                                             [CallerRequests[request] EXCEPT !.method = method],
                                             NONE, "stays", {})
        s1 == parse_response(policy, s0, DataRead(Received), ch, {})
    IN  IF s1.ret = Continue /\ last_read = "closed"
        THEN parse_response(policy, s1, ClosedRead, ch, {})
        ELSE IF s1.ret = Continue /\ last_read = "error"
        THEN parse_response(policy, s1, FailedRead(ret), ch, {})
        ELSE s1

\* --------------------------------------------------------------- the claims

\* C1. C++ engine: once the header terminator is found and a Content-Length N
\* is parsed, a ConnectionClosed that finds fewer than header_size_ + N bytes
\* buffered makes the request return HttpParseFailure, and a success carries
\* as its body exactly the N bytes after the header block, however the bytes
\* were split across reads.
C1_ClosedShortIsParseFailure ==
    (lang = "cpp" /\ Done /\ content_length # UnknownLength) =>
        /\ (last_read = "closed" /\ pos < header_len + content_length)
              => ret = HTTP_PARSE_FAILURE
        /\ ret = NONE =>
              /\ pos >= header_len + content_length
              /\ Returned.body = Slice(Received, header_len, header_len + content_length)

\* C1's case: the peer sends the headers with Content-Length 4 and two body
\* bytes, in pieces, and closes; the request has returned HttpParseFailure.
C1_Witness ==
    /\ lang = "cpp" /\ peer = "splitting" /\ stream = 3
    /\ last_read = "closed" /\ pos = Len(Streams[3])
    /\ header_len = 38 /\ content_length = 4
    /\ ret = HTTP_PARSE_FAILURE

\* C2. C engine: when the headers are parsed with Content-Length N and the
\* transport reports CONNECTION_CLOSED while fewer than header_len + N bytes
\* are buffered, perform_request returns HTTP_PARSE_FAILURE.
C2_ClosedShortIsParseFailure ==
    (/\ lang = "c" /\ Done /\ last_read = "closed"
     /\ Terminator # NotFound /\ headers_parsed /\ header_len = Terminator + 4
     /\ content_length >= 0 /\ pos < header_len + content_length)
        => ret = HTTP_PARSE_FAILURE

\* C3. When the transport reports ConnectionClosed, at least one byte has
\* been received and the header terminator is not among the received bytes,
\* perform_request returns HttpParseFailure.
C3_ClosedBeforeTerminator ==
    (Done /\ last_read = "closed" /\ pos > 0 /\ Terminator = NotFound)
        => ret = HTTP_PARSE_FAILURE

\* C4. When a Content-Length N is parsed, the body of a successful response
\* is the N bytes that follow the header terminator in the received stream.
C4_BodyIsTheDeclaredBytes ==
    (Done /\ ret = NONE /\ Terminator # NotFound /\ content_length # UnknownLength) =>
        /\ pos >= Terminator + 4 + content_length
        /\ Returned.body = Slice(Received, Terminator + 4, Terminator + 4 + content_length)

\* C5. When the response headers hold no Content-Length, the response
\* completes only on ConnectionClosed, its body is every byte received after
\* the header terminator, and no content length is recorded.
C5_FramedByClose ==
    (Done /\ ret = NONE /\ Terminator # NotFound /\ DeclaredLength = UnknownLength) =>
        /\ last_read = "closed"
        /\ content_length = UnknownLength
        /\ Returned.body = Slice(Received, Terminator + 4, pos)

\* C6. Split-read invariance, C engine: whatever the partition of the
\* received bytes into reads, perform_request gives the error, or the status
\* code, message, headers and body, that it gives when the same bytes arrive
\* in one read (and that one read, with the close or failure that followed,
\* is enough for it to return).
C6_SplitReadInvariance ==
    (/\ lang = "c" /\ Done /\ nreq = 1 /\ Terminator # NotFound /\ pos < InitialCapacity
     /\ OneRead.ret # Continue)
        => Outcome(St) = Outcome(OneRead)

\* C7. C engine: on success every view of the response (status message,
\* header keys and values, body) points into the storage the buffer occupies
\* when parsing completes, whatever growth moved the buffer.
C7_ViewsFollowTheBuffer ==
    (/\ lang = "c" /\ ret = NONE
     /\ Terminator # NotFound /\ headers_parsed /\ header_len = Terminator + 4
     /\ response.body # NULLP)
        => \A w \in ViewsOf(response) :
              w.blk = IF policy = HTTP_RESPONSE_SAFE_OWNING THEN response.owned
                      ELSE buffer.data

\* C8. A response larger than the buffer's capacity at the start of reading,
\* once all of it has been delivered (and the peer has closed, when the close
\* frames it), has parsed successfully with the body that was sent, and the
\* buffer's capacity is at least the size of the response.
C8_LargeResponseParses ==
    (/\ nreq > 0 /\ stream \in {5, 6} /\ Done /\ last_read # "error"
     /\ pos = Len(Streams[stream])
     /\ stream = 6 => last_read = "closed")
        => /\ ret = NONE
           /\ Returned.body = [i \in 1..BigBodyLen |-> "a"]
           /\ (lang = "cpp" \/ policy = HTTP_RESPONSE_UNSAFE_ZERO_COPY)
                 => buffer.capacity >= Len(Streams[stream])

\* C9. Memory policy: after a success the body of a safe-owning response lies
\* outside the engine's buffer, and the body of a zero-copy response lies in
\* the engine's buffer at the offset of the header size.
C9_MemoryPolicy ==
    (/\ ret = NONE /\ Terminator # NotFound
     /\ lang = "c" => (headers_parsed /\ header_len = Terminator + 4))
        => IF policy = HTTP_RESPONSE_UNSAFE_ZERO_COPY
           THEN response.body.blk = buffer.data /\ response.body.off = header_len
           ELSE lang = "cpp" \/ response.body.blk # buffer.data

\* C10. A response returned under the safe-owning policy reads the same
\* (status message, headers, body) through every later perform_request on
\* the engine, for as long as its caller holds it.
C10_HeldResponseUnchanged ==
    held.kept =>
        held.value = IF lang = "c" THEN ResponseValue(heap, live, held.res) ELSE held.res

\* C11. C engine, safe-owning mode: when the parse of a response fails (a
\* read error, an allocation failure, a parse failure), the engine's buffer
\* is again the one it held when the parse began, the buffer the failed parse
\* filled is freed, once, while it is still allocated, the buffer restored
\* is not freed, and the response owns no buffer.
C11_SafeFailureRestoresBuffer ==
    [][(/\ lang = "c"
        /\ policy = HTTP_RESPONSE_SAFE_OWNING
        /\ ret = Continue
        /\ ret' \notin {Continue, NONE, Crash})
            => /\ buffer' = saved
               /\ buffer.data \in live \cup {NullBlock}
               /\ live' = live \ {buffer.data}
               /\ buffer'.data \in live' \cup {NullBlock}
               /\ response'.owned = NullBlock]_vars

\* A safe-owning C request whose fitting realloc failed after a read: it has
\* returned, the parse buffer is gone and the request buffer is back.
C11_Witness ==
    /\ lang = "c"
    /\ policy = HTTP_RESPONSE_SAFE_OWNING
    /\ alloc_failed
    /\ Len(calls) = 2
    /\ ret = HTTP_PARSE_FAILURE
    /\ live = {buffer.data}
    /\ buffer.len > 0

\* C12. When an allocation that grows the buffer fails, while the request is
\* serialized or while the response is read, perform_request returns
\* HttpParseFailure and the buffer's data, len and capacity describe storage
\* that is still allocated, with capacity >= len.
C12_AllocationFailureIsParseFailure ==
    alloc_failed =>
        /\ ret = HTTP_PARSE_FAILURE
        /\ buffer.capacity >= buffer.len
        /\ \/ buffer.data = NullBlock /\ buffer.capacity = 0
           \/ buffer.data \in live

\* ------------------------------------------------- the claims on the client

\* The step is a call of f of the client with request q.
ClientCall(f, q) == nreq' = nreq + 1 /\ last_call' = f /\ request' = q

\* A header key of the request is Content-Length in some letter case.
HasContentLength(req) ==
    LET lower == <<"c", "o", "n", "t", "e", "n", "t", "-", "l", "e", "n", "g", "t", "h">>
        upper == <<"C", "O", "N", "T", "E", "N", "T", "-", "L", "E", "N", "G", "T", "H">>
    IN  \E i \in 1..Len(req.headers) :
           /\ Len(req.headers[i].key) = 14
           /\ \A k \in 1..14 : req.headers[i].key[k] \in {lower[k], upper[k]}

\* C13: get of the client with a request whose body is not empty returns
\* InvalidRequest and calls no operation of the transport, neither a write
\* nor a read, whether the transport is connected or not.
C13_GetWithBodyIsRejected ==
    [][\A q \in DOMAIN CallerRequests :
          (ClientCall("get", q) /\ CallerRequests[q].body # << >>)
              => /\ ret' = INVALID_REQUEST_SYNTAX
                 /\ calls' = << >>
                 /\ UNCHANGED <<wire, stream, pos, last_read, tvars>>]_vars

\* A connected client whose second call, a get with a body, was rejected
\* after a request that went to the wire.
C13_Witness ==
    /\ last_call = "get" /\ nreq = 2 /\ CallerRequests[request].body # << >>
    /\ ret = INVALID_REQUEST_SYNTAX /\ fd = SocketFd /\ wire # << >> /\ calls = << >>

\* C14: post of the client with a request whose body is empty returns
\* InvalidRequest, a Content-Length header or not, calls no operation of the
\* transport and leaves the method of the request and the buffer of the engine
\* as they were.
C14_PostWithoutBodyIsRejected ==
    [][\A q \in DOMAIN CallerRequests :
          (ClientCall("post", q) /\ CallerRequests[q].body = << >>)
              => /\ ret' = INVALID_REQUEST_SYNTAX
                 /\ calls' = << >>
                 /\ method' = CallerRequests[q].method
                 /\ UNCHANGED <<buffer, wire, stream, pos, last_read, tvars>>]_vars

\* C15: post of the client with a request whose body is not empty returns
\* InvalidRequest, and calls no operation of the transport, exactly when no
\* header key of the request is Content-Length in some letter case; with such
\* a key the request is handed on as a POST.
C15_PostNeedsContentLength ==
    [][\A q \in DOMAIN CallerRequests :
          (ClientCall("post", q) /\ CallerRequests[q].body # << >>)
              => IF HasContentLength(CallerRequests[q])
                 THEN ret' # INVALID_REQUEST_SYNTAX /\ method' = POST
                 ELSE /\ ret' = INVALID_REQUEST_SYNTAX
                      /\ calls' = << >>
                      /\ UNCHANGED <<wire, stream, pos, last_read, tvars>>]_vars

\* A post whose key is content-length in lower case went to the wire as a POST
\* and was answered.
C15_Witness ==
    /\ last_call = "post" /\ request = 3 /\ method = POST /\ ret = NONE
    /\ Len(calls) = 2 /\ wire # << >>

\* The header lines of a request, in the order of its headers.
RECURSIVE SerializedHeaders(_)
SerializedHeaders(hs) ==
    IF hs = << >> THEN << >>
    ELSE Head(hs).key \o <<":", " ">> \o Head(hs).value \o <<CR, LF>>
            \o SerializedHeaders(Tail(hs))

\* The bytes of a request on the wire.
Serialized(req) ==
    (IF req.method = POST THEN <<"P", "O", "S", "T">> ELSE <<"G", "E", "T">>)
        \o <<" ">> \o req.path \o <<" ", "H", "T", "T", "P", "/", "1", ".", "1", CR, LF>>
        \o SerializedHeaders(req.headers) \o <<CR, LF>> \o req.body

\* The bytes of the segments handed to the one write of the request.
Sent == IF Len(wire) = 2 THEN wire[1] \o wire[2] ELSE wire[1]

\* The request of the last call went to a write of the transport.
WasWritten ==
    /\ last_call \in {"get", "post", "perform_request"}
    /\ calls # << >>
    /\ calls[1].err # Crash

C17_VectoredEqualsCopy ==
    LET req == [CallerRequests[request] EXCEPT !.method = method]
    IN  (lang = "c" /\ WasWritten /\ io_policy = HTTP_IO_VECTORED_WRITE
         /\ req.method = POST /\ req.body # << >>)
            => /\ Len(calls) <= 2 /\ calls[1].op = "writev"
               /\ Len(wire) = 2
               /\ wire[1] \o wire[2] =
                    WriteSegments(HTTP_IO_COPY_WRITE,
                                  BuildRequest(HTTP_IO_COPY_WRITE, NewEngine("c"), req,
                                               "stays", {}),
                                  req)[1]

\* A POST whose body went out as the second segment of a writev and that was
\* answered.
C17_Witness ==
    /\ lang = "c" /\ io_policy = HTTP_IO_VECTORED_WRITE /\ WasWritten /\ ret = NONE
    /\ method = POST /\ Len(wire) = 2 /\ wire[2] = <<"o", "k">> /\ calls[1].op = "writev"

\* C18: perform_request makes one write or writev call for a request, and
\* makes it before any read; when that call fails, its error is what
\* perform_request returns, and no read is made for the request.
C18_OneWriteBeforeAnyRead ==
    /\ (last_call = "perform_request" /\ calls = << >>) => alloc_failed
    /\ calls # << >> =>
          /\ calls[1].op \in {"write", "writev"}
          /\ \A i \in 2..Len(calls) : calls[i].op = "read"
          /\ calls[1].err # NONE => Len(calls) = 1 /\ ret = calls[1].err

\* The write of a request failed and perform_request returned its error.
C18_Witness ==
    /\ Len(calls) = 1 /\ calls[1].op \in {"write", "writev"} /\ wire # << >>
    /\ calls[1].err = SOCKET_WRITE_FAILURE /\ ret = SOCKET_WRITE_FAILURE

\* C19: a read of the transport that fails with an error other than
\* ConnectionClosed, before the header terminator is found or after it with
\* the body incomplete, makes perform_request return that error, neither a
\* parse failure nor a success, and no read of the request follows.
C19_ReadErrorIsReturned ==
    [][/\ (ret = Continue /\ last_read' = "error")
            => /\ calls'[Len(calls')].op = "read"
               /\ calls'[Len(calls')].err \in TransportFailures
               /\ ret' = calls'[Len(calls')].err
       /\ (last_read = "error" /\ calls' # calls) => nreq' = nreq + 1]_vars

\* A read failed after the headers of the response were parsed, with the
\* error the transport uses for writes, and perform_request returned it.
C19_Witness ==
    /\ last_read = "error" /\ ret = SOCKET_WRITE_FAILURE /\ header_len > 0 /\ pos > 0
    /\ Len(calls) = 2 /\ calls[2] = [op |-> "read", err |-> SOCKET_WRITE_FAILURE]

\* ---------------------------------------------- the claims on the transports

\* C20: close of every transport is idempotent: after any connects and
\* closes, a close of a transport that is closed, because it never connected
\* or because the call before was a close, one whose syscall succeeded or
\* one whose syscall failed, returns success and makes no close syscall.
C20_CloseIsIdempotent ==
    [][(/\ last_call' = "close"
        /\ \/ last_call = "close"
           \/ last_call = "new" /\ fd = NoFd(lang))
            => tret' = NONE /\ closes' = 0]_vars


\* C21: a TCP connect over candidate addresses that each connect or fail
\* (none fails at the option) tries them in order and stops at the first that
\* connects, with success; it fails only when every candidate fails, with
\* all of them tried; and of the sockets it made only the one it keeps on a
\* success is open when it returns.
C21_ConnectTriesCandidatesInOrder ==
    [][(/\ last_call' = "connect" /\ transport = "tcp" /\ tcall'.cands # << >>
        /\ \A i \in DOMAIN tcall'.cands : tcall'.cands[i] # "nodelay")
            => LET os == tcall'.cands
                   connecting == {i \in DOMAIN os : os[i] = "ok"}
               IN  /\ connecting # {} => tret' = NONE /\ tcall'.tried = SetMin(connecting)
                   /\ connecting = {} => tret' # NONE /\ tcall'.tried = Len(os)
                   /\ (open_fds' \ open_fds) \subseteq (IF tret' = NONE THEN {fd'} ELSE {})]_vars

\* C22: a TCP connect returns success only with a socket on which
\* TCP_NODELAY was set; when the option fails on a candidate and no candidate
\* both connects and takes the option, connect returns SocketConnectFailure;
\* and a socket on which the option failed is closed and not kept: of the
\* sockets the connect made, only the one a success keeps is open.
C22_NoDelayFailureIsConnectFailure ==
    [][(last_call' = "connect" /\ transport = "tcp" /\ tcall'.cands # << >>)
            => LET os == tcall'.cands
                   failed == {i \in 1..tcall'.tried : os[i] = "nodelay"}
               IN  /\ tret' = NONE => os[tcall'.tried] = "ok"
                   /\ (failed # {} /\ \A i \in DOMAIN os : os[i] # "ok")
                        => tret' = TransportErrorCode.SOCKET_CONNECT_FAILURE
                   /\ failed # {}
                        => (open_fds' \ open_fds) \subseteq (IF tret' = NONE THEN {fd'} ELSE {})]_vars

\* What the connect just made returned when each candidate address failed
\* for the cause `cause` and all were tried, or "other" when that is not
\* the case.
AllFailedBy(cause) ==
    IF /\ last_call = "connect" /\ tcall.cands # << >>
       /\ tcall.tried = Len(tcall.cands)
       /\ \A i \in DOMAIN tcall.cands : tcall.cands[i] = cause
    THEN tret ELSE "other"

\* C23 as stated: a connect whose resolution fails returns DnsFailure and
\* makes no socket, one whose candidates all fail at the creation of the
\* socket returns SocketCreateFailure, one whose candidates all refuse
\* returns SocketConnectFailure, and the three errors differ.
C23_ThreeCausesThreeErrors ==
    /\ (last_call = "connect" /\ tcall.cands = << >>)
         => tret = TransportErrorCode.DNS_FAILURE /\ tcall.tried = 0 /\ closes = 0
    /\ AllFailedBy("socket") \in {"other", TransportErrorCode.SOCKET_CREATE_FAILURE}
    /\ AllFailedBy("refused") \in {"other", TransportErrorCode.SOCKET_CONNECT_FAILURE}
    /\ Cardinality({TransportErrorCode.DNS_FAILURE, TransportErrorCode.SOCKET_CREATE_FAILURE,
                    TransportErrorCode.SOCKET_CONNECT_FAILURE}) = 3

\* C23 as the code has it: a connect whose resolution fails returns
\* DnsFailure, which differs from the other errors, and makes no socket; one
\* whose candidates all refuse returns SocketConnectFailure; one that cannot
\* create a socket returns SocketCreateFailure on a Unix transport and, when
\* that happens for every candidate, SocketConnectFailure on a TCP transport.
C23_ConnectFailureCauses ==
    /\ (last_call = "connect" /\ tcall.cands = << >>)
         => tret = TransportErrorCode.DNS_FAILURE /\ tcall.tried = 0 /\ closes = 0
    /\ AllFailedBy("socket") \in
         {"other", IF transport = "unix" THEN TransportErrorCode.SOCKET_CREATE_FAILURE
                   ELSE TransportErrorCode.SOCKET_CONNECT_FAILURE}
    /\ AllFailedBy("refused") \in {"other", TransportErrorCode.SOCKET_CONNECT_FAILURE}
    /\ TransportErrorCode.DNS_FAILURE \notin {TransportErrorCode.SOCKET_CREATE_FAILURE,
                                             TransportErrorCode.SOCKET_CONNECT_FAILURE}

\* No socket could be made for either of the two candidates of a TCP connect.
C23_Witness ==
    /\ transport = "tcp" /\ last_call = "connect"
    /\ tcall.cands = <<"socket", "socket">> /\ tcall.tried = 2
    /\ tret = "SocketConnectFailure"

\* C24: on every transport, a write on a transport that is not connected,
\* because it never connected or because it was closed, fails with
\* SocketWriteFailure and a read with SocketReadFailure, and neither hands a
\* descriptor to a read or write syscall.
C24_UnconnectedTransferFails ==
    [][(last_call' \in {"write", "read"} /\ fd = NoFd(lang))
            => /\ tret' = (IF last_call' = "read" THEN SOCKET_READ_FAILURE
                           ELSE SOCKET_WRITE_FAILURE)
               /\ tcall'.sys = {}]_vars

\* C28: http_client_init with a transport type it does not know makes no
\* transport and returns the INIT_FAILURE of the transport errors; with a
\* transport type it knows, TCP or Unix, it returns success or, the protocol
\* type being unknown, the INIT_FAILURE of the client errors after it
\* destroyed the transport it made.
C28_InitFailures ==
    last_call = "init"
        => /\ tcall.made = "none" => tret = TransportErrorCode.INIT_FAILURE
           /\ tcall.made \in {"tcp", "unix"}
                => \/ tret = NONE /\ ~tcall.destroyed
                   \/ tret = "HttpcInitFailure" /\ tcall.destroyed

\* ------------------------------------------- the claims on the header lines

\* The header lines of the received bytes: the lines between the end of the
\* status line and the header terminator that hold a colon, in the order
\* received, each as its key, the bytes before the first colon, and its
\* value, the bytes after it less the spaces that lead them.
ReceivedHeaders ==
    LET T == Terminator
        IsCRLF(i) == Received[i + 1] = CR /\ Received[i + 2] = LF
        first == SetMin({i \in 0..T : IsCRLF(i)}) + 2
        starts == {s \in first..(T - 1) : s = first \/ IsCRLF(s - 2)}
        End(s) == SetMin({j \in s..T : IsCRLF(j)})
        Colon(s) == {c \in s..(End(s) - 1) : Received[c + 1] = COLON}
        lines == {s \in starts : Colon(s) # {}}
        Value(s) == LET v == Slice(Received, SetMin(Colon(s)) + 1, End(s))
                    IN  SubSeq(v, PrefixIn(v, {SP}) + 1, Len(v))
    IN  [k \in 1..Cardinality(lines) |->
            LET s == CHOOSE x \in lines : Cardinality({y \in lines : y < x}) = k - 1
            IN  <<Slice(Received, s, SetMin(Colon(s))), Value(s)>>]

\* C25: the headers of a successful response, its header block being the
\* received bytes up to their first terminator, are the header lines
\* received: all of them, however many, in their order, with the case of
\* the keys and the duplicates kept and the leading spaces of the values
\* removed.
C25_HeadersAreTheReceivedLines ==
    (/\ Done /\ ret = NONE /\ Terminator # NotFound
     /\ headers_parsed /\ header_len = Terminator + 4)
        => Returned.headers = ReceivedHeaders

\* The value of the first received header line whose key is Content-Length
\* in any letter case, as a number, or UnknownLength when there is none.
ReceivedContentLength ==
    LET hits == {i \in DOMAIN ReceivedHeaders : EqNoCase(ReceivedHeaders[i][1], CONTENT_LENGTH)}
        v == ReceivedHeaders[SetMin(hits)][2]
    IN  IF hits = {} THEN UnknownLength ELSE DecimalValue(v, PrefixIn(v, Digits))

\* C26: when the header block received holds a Content-Length line, in any
\* letter case and at any place among the lines, a successful response is
\* framed by its value N: the engine records N, the body is the N bytes after
\* the terminator, and it returns once they are received, without a read
\* that reports the close.
C26_ContentLengthFrames ==
    (/\ Done /\ ret = NONE /\ Terminator # NotFound
     /\ headers_parsed /\ header_len = Terminator + 4
     /\ ReceivedContentLength # UnknownLength
     /\ Len(Streams[stream]) >= header_len + ReceivedContentLength)
        => /\ content_length = ReceivedContentLength
           /\ Returned.body = Slice(Received, header_len, header_len + ReceivedContentLength)
           /\ last_read # "closed"

\* C27: the response the C++ engine returns on success, as views of the
\* buffer or as copies, carries the content length of the header block
\* received: N when a Content-Length line declares N, no value when none
\* does.
C27_ResponseCarriesContentLength ==
    (/\ lang = "cpp" /\ Done /\ ret = NONE /\ Terminator # NotFound
     /\ header_len = Terminator + 4)
        => response.content_length = ReceivedContentLength

\* C29: the framing of a response, whether and where its header block ends
\* and the length it declares, is that of the bytes received for it, after
\* any request before it on the engine, whether that one succeeded framed by
\* its length, succeeded framed by the close, or failed.
C29_FramingOfTheBytesReceived ==
    Done =>
        IF Terminator = NotFound
        THEN header_len = 0 /\ content_length = UnknownLength
        ELSE header_len = Terminator + 4 /\ content_length = ReceivedContentLength

\* ------------------------------------------- the claims on the C buffer

\* The capacity of the buffer once the request of the step is serialized
\* into it.
BuiltCapacity ==
    BuildRequest(io_policy, St, [CallerRequests[request'] EXCEPT !.method = method'],
                 "stays", {}).buffer.capacity

\* The buffer the engine keeps from request to request: while a response is
\* read under the safe-owning policy, the one parse_response_safe has put
\* aside.
OwnBuffer ==
    IF policy = HTTP_RESPONSE_SAFE_OWNING /\ ret = Continue THEN saved ELSE buffer

\* perform_request has sent the request and started to read the response.
StartsResponseRead == lang = "c" /\ nreq' = nreq + 1 /\ ret' = Continue

\* C30 as stated: on a C engine the capacity of the buffer is at least its
\* length in every state; the start of a response read leaves the buffer
\* with length 0 and the capacity it had with the request in it; and the
\* capacity of the buffer the engine keeps never decreases.
C30_BufferKeepsItsCapacity ==
    [][lang = "c" /\ ret' # Crash
        => /\ buffer'.capacity >= buffer'.len
           /\ StartsResponseRead => buffer'.len = 0 /\ buffer'.capacity = BuiltCapacity
           /\ OwnBuffer'.capacity >= OwnBuffer.capacity]_vars

\* C30 as the code has it: on a C engine the capacity of the buffer is at
\* least its length in every state; the start of a response read leaves the
\* buffer with length 0, and with the capacity it had with the request in it
\* under the zero-copy policy, while under the safe-owning policy the
\* response is read into a new buffer of capacity 0 and the engine's buffer
\* is put aside with its capacity; and the capacity of the buffer the engine
\* keeps never decreases.
C30_BufferInvariant ==
    [][lang = "c" /\ ret' # Crash
        => /\ buffer'.capacity >= buffer'.len
           /\ StartsResponseRead
                => /\ buffer'.len = 0
                   /\ OwnBuffer'.capacity = BuiltCapacity
                   /\ policy = HTTP_RESPONSE_SAFE_OWNING => buffer' = EmptyBuffer
           /\ OwnBuffer'.capacity >= OwnBuffer.capacity]_vars

\* The second request of a C engine under the safe-owning policy has started
\* to read its response into a new buffer, the engine's own put aside.
C30_Witness ==
    /\ lang = "c" /\ policy = HTTP_RESPONSE_SAFE_OWNING /\ nreq = 2 /\ ret = Continue
    /\ buffer = EmptyBuffer /\ saved.capacity = InitialCapacity /\ saved.len > 0

\* new is old, or old (2048 when old is 0) doubled one or more times.
IsDoubling(old, new) ==
    \/ new = old
    \/ \E k \in 0..4 : new = (IF old = 0 THEN InitialCapacity ELSE old * 2) * (2 ^ k)

C32_ConnectOnConnectedUnixFails ==
    [][lang = "cpp" /\ transport = "unix" /\ fd \in open_fds /\ last_call' = "connect"
        => /\ tret' = TransportErrorCode.SOCKET_CONNECT_FAILURE
           /\ tcall'.tried = 0
           /\ closes' = 0
           /\ fd' = fd
           /\ open_fds' = open_fds]_vars

\* A connected C++ UnixTransport whose last call was a connect that failed.
C32_Witness ==
    /\ lang = "cpp" /\ transport = "unix" /\ fd \in open_fds
    /\ last_call = "connect" /\ tcall.tried = 0 /\ tcall.cands # << >>
    /\ tret = TransportErrorCode.SOCKET_CONNECT_FAILURE

\* C34: whenever the headers of a C engine are parsed, the terminator lies
\* in the bytes received for the response: header_len <= buffer.len, and
\* header_len is the end of the first terminator of the received bytes.
C34_TerminatorInReceivedBytes ==
    lang = "c" /\ ret # Crash /\ ret # HTTP_PARSE_FAILURE /\ headers_parsed
        => /\ header_len <= buffer.len
           /\ Terminator # NotFound
           /\ header_len = Terminator + 4

\* C35: perform_request returns success only when the header terminator is
\* among the bytes received for the request; in particular not when the
\* peer closed without sending a byte.
C35_SuccessNeedsTheTerminator ==
    Done /\ ret = NONE => pos > 0 /\ Terminator # NotFound

\* C38: after any connects and closes of one transport, at most one
\* descriptor it opened is open, and that one is the descriptor it records.
C38_AtMostTheRecordedDescriptorIsOpen ==
    open_fds = {} \/ open_fds = {fd}

\* C39: a POST under the vectored-write policy through the C engine of a
\* client on a TCP or a Unix transport calls only entries its transport
\* has: the request goes out through writev, which is set.
C39_VectoredPostCallsWhatIsProvided ==
    (/\ lang = "c" /\ transport \in {"tcp", "unix"}
     /\ last_call = "post" /\ io_policy = HTTP_IO_VECTORED_WRITE
     /\ calls # << >>)
        => /\ "writev" \in Interface(transport)
           /\ ret # Crash

\* C33: once the bytes received hold the header block and the
\* Content-Length bytes it declares, the engine reads no more for the
\* request: while it is to read again, they fall short.
C33_NoReadBeyondTheDeclaredLength ==
    ret = Continue /\ Terminator # NotFound /\ DeclaredLength # UnknownLength
        => pos < Terminator + 4 + DeclaredLength

\* C36: on every successful response the header size and the body length
\* together are at most the bytes received for the request, whatever the
\* Content-Length line holds.  A size_t below zero stands for one near 2^64.
C36_ResponseWithinTheBytesReceived ==
    Done /\ ret = NONE
        => LET body_len == IF lang = "c" THEN response.body_len ELSE Len(Returned.body)
           IN  /\ body_len >= 0
               /\ header_len + body_len <= pos

\* C37: the engine reads a response only after its transport took every
\* byte of the serialized request: while perform_request reads, or once it
\* returned what the reads gave, the write had reported all the bytes sent.
C37_ReadsOnlyAfterAWholeWrite ==
    last_read # "none" \/ ret = Continue => bytes_written = Len(Sent)

\* C40: a read that reports the close of the peer or an error is the last
\* read of its request, and every request that is reading returns to its
\* caller: the reads that give bytes are finitely many, and the one that
\* follows them ends the loop.
C40_ReadLoopTerminates ==
    /\ [](last_read \in {"closed", "error"} => ret # Continue)
    /\ (ret = Continue ~> (Done /\ ret # Crash))

====
